---- MODULE Spec2Model ----
(***************************************************************************)
(* Lifecycle-scoped agent registry: MemoryStorage, FileStorage and         *)
(* AgentRegistry of src/src/storage/file.ts.                               *)
(*                                                                         *)
(* A JavaScript string is a sequence of tokens.  A token is one character  *)
(* ("a", ":", "/") or an indivisible chunk of characters that no input     *)
(* splits (".json", "session", "unknown-session").  The empty string is    *)
(* <<>>.  No input holds a "." or ".." path segment.                       *)
(* A file-system path is a sequence of segments below basePath; a segment  *)
(* is a non-empty string without "/".                                      *)
(***************************************************************************)
EXTENDS Integers, Sequences, FiniteSets, TLC

\* ------------------------------------------------------------------ bounds
\* randomUUID() is called at most MaxIds times
MaxIds == 2
\* new Date() takes the values 0..MaxClock
MaxClock == 1
\* resume is not called on a record whose turnCount reached MaxTurn
MaxTurn == 1

\* ----------------------------------------------------------- string values
EmptyStr == <<>>
\* a value that is undefined in JavaScript (an absent optional field)
Undefined == <<"<undefined>">>
\* an undefined metadata map (a map is a set of <<key, value>> pairs, the
\* value a string or Undefined)
NoMetadata == {<<"<undefined>">>}
\* null, as returned by load / findByNameAndScope / get
Null == [isNull |-> TRUE]

EPHEMERAL == <<"ephemeral">>
TURN == <<"turn">>
CONTEXT == <<"context">>
SESSION == <<"session">>
WORKFLOW == <<"workflow">>
PROJECT == <<"project">>
Lifespans == {EPHEMERAL, TURN, CONTEXT, SESSION, WORKFLOW, PROJECT}
FileLifespans == {SESSION, WORKFLOW, PROJECT}
MEMORY == <<"memory">>
\* the four backends of a registry: memoryStorage and fileStorages[lifespan]
Backends == {MEMORY} \cup FileLifespans

\* process.cwd()
Cwd == <<"/", "w">>

\* JavaScript truthiness of a string-or-undefined value: !!x
Truthy(x) == x # Undefined /\ x # EmptyStr
\* a ?? b
Coalesce(a, b) == IF a # Undefined THEN a ELSE b

\* ------------------------------------------------------------ path.join
RECURSIVE SplitSlash(_)
\* s.split("/"): the pieces of s between its "/" tokens, empty pieces included
SplitSlash(s) ==
  IF \A i \in 1..Len(s) : s[i] # "/"
  THEN <<s>>
  ELSE LET k == CHOOSE i \in 1..Len(s) :
                  s[i] = "/" /\ \A j \in 1..(i - 1) : s[j] # "/"
       IN <<SubSeq(s, 1, k - 1)>> \o SplitSlash(SubSeq(s, k + 1, Len(s)))

RECURSIVE Flatten(_)
Flatten(ss) == IF ss = <<>> THEN <<>> ELSE Head(ss) \o Flatten(Tail(ss))

\* path.join(basePath, ...parts) relative to basePath: the parts are joined
\* with "/" and normalised, which drops every empty segment
Join(parts) ==
  SelectSeq(Flatten([i \in 1..Len(parts) |-> SplitSlash(parts[i])]),
            LAMBDA seg : seg # EmptyStr)

\* `${name}.json`
JsonFile(name) == name \o <<".json">>
\* f.endsWith('.json')
EndsWithJson(f) == Len(f) >= 1 /\ f[Len(f)] = ".json"
\* path.dirname(path)
Dirname(path) == SubSeq(path, 1, Len(path) - 1)
\* every directory mkdirSync(dir, {recursive: true}) makes sure exists
Ancestors(dir) == {SubSeq(dir, 1, n) : n \in 0..Len(dir)}

\* ------------------------------------------------------------ JSON
\* JSON.stringify(agent, null, 2): a property whose value is undefined is
\* left out of the document
Stringify(agent) ==
  [json |-> [agent EXCEPT !.metadata = {p \in @ : p[2] # Undefined}]]
\* JSON.parse(content)
Parse(doc) == doc.json

\* ------------------------------------------------------------ state
VARIABLES
  agents,     \* MemoryStorage.agents: agentId -> RegisteredAgent
  nameIndex,  \* MemoryStorage.nameIndex: "name:scope" -> agentId
  files,      \* the regular files below basePath: path -> content
  dirs,       \* the directories below basePath (basePath itself is <<>>)
  env,        \* process.env.CLAUDE_SESSION_ID, or Undefined
  clock,      \* the value new Date() returns
  nextId,     \* the number of randomUUID() calls made so far
  ret,        \* the last call: its name, its arguments and what it returned
  hist,       \* agentId -> the config whose create returned it with isNew,
              \* for the records no disposal call has removed since
  calls       \* caller -> the create call it has in flight: where the call
              \* is suspended and the locals it holds

vars == <<agents, nameIndex, files, dirs, env, clock, nextId, ret, hist, calls>>

EmptyFn == [x \in {} |-> x]
Without(f, ks) == [x \in (DOMAIN f) \ ks |-> f[x]]

\* the storage state the backends work on, as one value
Store == [agents |-> agents, nameIndex |-> nameIndex, files |-> files, dirs |-> dirs]

\* randomUUID(): the n-th identifier handed out
UUID(n) == <<"uuid", n>>

\* an AgentFilter; a field that is not given is Undefined
Filter(lifespan, scope, name) == [lifespan |-> lifespan, scope |-> scope, name |-> name]
\* list() called without a filter argument
NoFilter == [none |-> TRUE]

\* ------------------------------------------------------------ MemoryStorage
getNameKey(name, scope) == name \o <<":">> \o scope

MemoryMatchesFilter(agent, filter) ==
  /\ ~(Truthy(filter.lifespan) /\ agent.lifespan # filter.lifespan)
  /\ ~(Truthy(filter.scope) /\ agent.scope # filter.scope)
  /\ ~(Truthy(filter.name) /\ agent.name # filter.name)

\* save that forgets the name index
MemorySaveNoIndex(st, agent) ==
  [st EXCEPT !.agents = (agent.agentId :> agent) @@ @]

MemorySave(st, agent) ==
  [st EXCEPT !.agents = (agent.agentId :> agent) @@ @,
             !.nameIndex = (getNameKey(agent.name, agent.scope) :> agent.agentId) @@ @]

MemoryLoad(st, agentId) ==
  IF agentId \in DOMAIN st.agents THEN st.agents[agentId] ELSE Null

\* findByNameAndScope that builds its key as "scope:name"
MemoryFindSwappedKey(st, name, scope) ==
  LET key == getNameKey(scope, name) IN
  IF key \notin DOMAIN st.nameIndex THEN Null
  ELSE MemoryLoad(st, st.nameIndex[key])

MemoryFindByNameAndScope(st, name, scope) ==
  LET key == getNameKey(name, scope) IN
  IF key \notin DOMAIN st.nameIndex THEN Null
  ELSE MemoryLoad(st, st.nameIndex[key])

MemoryDelete(st, agentId) ==
  IF agentId \in DOMAIN st.agents
  THEN LET agent == st.agents[agentId] IN
       [st EXCEPT !.nameIndex = Without(@, {getNameKey(agent.name, agent.scope)}),
                  !.agents = Without(@, {agentId})]
  ELSE st

MemoryList(st, filter) ==
  {st.agents[id] : id \in {i \in DOMAIN st.agents :
      filter = NoFilter \/ MemoryMatchesFilter(st.agents[i], filter)}}

RECURSIVE MemoryDeleteAll(_, _)
\* the second loop of deleteMany: delete(agentId) for each collected id
MemoryDeleteAll(st, ids) ==
  IF ids = {} THEN st
  ELSE LET id == CHOOSE i \in ids : TRUE
       IN MemoryDeleteAll(MemoryDelete(st, id), ids \ {id})

\* deleteMany that counts the matching records and deletes none
MemoryDeleteManyKeepsRecords(st, filter) ==
  [st |-> st,
   count |-> Cardinality({j \in DOMAIN st.agents :
                            MemoryMatchesFilter(st.agents[j], filter)})]

\* deleteMany(filter): the new storage state and the number returned
MemoryDeleteMany(st, filter) ==
  LET toDelete == {a.agentId : a \in {st.agents[i] : i \in
                     {j \in DOMAIN st.agents : MemoryMatchesFilter(st.agents[j], filter)}}}
  IN [st |-> MemoryDeleteAll(st, toDelete), count |-> Cardinality(toDelete)]

\* ------------------------------------------------------------ fs
\* a file whose content JSON.parse rejects
CorruptDoc == [corrupt |-> TRUE]
ParseOk(doc) == doc # CorruptDoc

ExistsSync(st, path) == path \in DOMAIN st.files \/ path \in st.dirs

\* readdirSync(dir): the names of the entries of dir, files and directories
ReadDirSync(st, dir) ==
  {p[Len(dir) + 1] : p \in {q \in (DOMAIN st.files) \cup st.dirs :
      Len(q) = Len(dir) + 1 /\ SubSeq(q, 1, Len(dir)) = dir}}

\* mkdirSync(dir, {recursive: true})
MkdirSync(st, dir) == [st EXCEPT !.dirs = @ \cup Ancestors(dir)]

\* writeFileSync(path, content)
WriteFileSync(st, path, content) == [st EXCEPT !.files = (path :> content) @@ @]

\* unlinkSync(path)
UnlinkSync(st, path) == [st EXCEPT !.files = Without(@, {path})]

\* ------------------------------------------------------------ FileStorage
\* ls is this.lifespan of the FileStorage instance (session, workflow, project)
getAgentPath(ls, agent) ==
  IF ls = PROJECT
  THEN Join(<<PROJECT, JsonFile(agent.name)>>)
  ELSE Join(<<ls, agent.scope, JsonFile(agent.name)>>)

getAgentPathByNameAndScope(ls, name, scope) ==
  IF ls = PROJECT
  THEN Join(<<PROJECT, JsonFile(name)>>)
  ELSE Join(<<ls, scope, JsonFile(name)>>)

\* ensureBaseDir that makes the lifespan directory anew, emptying it
ensureBaseDirFresh(st, ls) ==
  LET dir == Join(<<ls>>)
      below(q) == Len(q) > Len(dir) /\ SubSeq(q, 1, Len(dir)) = dir
  IN MkdirSync([st EXCEPT !.files = Without(@, {q \in DOMAIN @ : below(q)}),
                          !.dirs = {q \in @ : ~below(q)}], dir)

\* constructor -> ensureBaseDir()
ensureBaseDir(st, ls) ==
  IF ExistsSync(st, Join(<<ls>>)) THEN st ELSE MkdirSync(st, Join(<<ls>>))

FileMatchesFilter(agent, filter) ==
  /\ ~(Truthy(filter.lifespan) /\ agent.lifespan # filter.lifespan)
  /\ ~(Truthy(filter.scope) /\ agent.scope # filter.scope)
  /\ ~(Truthy(filter.name) /\ agent.name # filter.name)

\* save that opens the file with flag 'wx': an existing file is kept
FileSaveIfAbsent(st, ls, agent) ==
  LET path == getAgentPath(ls, agent)
      dir == Dirname(path)
      st1 == IF ExistsSync(st, dir) THEN st ELSE MkdirSync(st, dir)
  IN IF ExistsSync(st, path) THEN st ELSE WriteFileSync(st1, path, Stringify(agent))

\* No input holds the token ".json", so the path of a record is never a
\* directory and its dirname is never a regular file: mkdirSync and
\* writeFileSync do not throw.
FileSave(st, ls, agent) ==
  LET path == getAgentPath(ls, agent)
      dir == Dirname(path)
      st1 == IF ExistsSync(st, dir) THEN st ELSE MkdirSync(st, dir)
  IN WriteFileSync(st1, path, Stringify(agent))

\* list() that gives up on a directory when one of its files does not parse
ReadAgentsUntilCorrupt(st, dir) ==
  IF \E q \in DOMAIN st.files :
       Len(q) = Len(dir) + 1 /\ SubSeq(q, 1, Len(dir)) = dir /\ ~ParseOk(st.files[q])
  THEN {}
  ELSE {Parse(st.files[p]) : p \in {q \in DOMAIN st.files :
          Len(q) = Len(dir) + 1 /\ SubSeq(q, 1, Len(dir)) = dir
          /\ EndsWithJson(q[Len(q)])}}

\* the records of the files of directory dir that list() reads: the entries
\* that end in .json; an entry that cannot be read or parsed is skipped
ReadAgents(st, dir) ==
  {Parse(st.files[p]) : p \in {q \in DOMAIN st.files :
      /\ Len(q) = Len(dir) + 1
      /\ SubSeq(q, 1, Len(dir)) = dir
      /\ EndsWithJson(q[Len(q)])
      /\ ParseOk(st.files[q])}}

FileList(st, ls, filter) ==
  LET lifespanDir == Join(<<ls>>)
      scopeDirs == {d \in ReadDirSync(st, lifespanDir) : (lifespanDir \o <<d>>) \in st.dirs}
      read == IF ls = PROJECT
              THEN ReadAgents(st, lifespanDir)
              ELSE UNION {ReadAgents(st, lifespanDir \o <<scope>>) : scope \in scopeDirs}
  IN IF ~ExistsSync(st, lifespanDir) THEN {}
     ELSE {a \in read : filter = NoFilter \/ FileMatchesFilter(a, filter)}

\* load(agentId): every record agents.find() can return, whatever the order
\* in which readdirSync lists the files; {Null} when none has the id
FileLoadResults(st, ls, agentId) ==
  LET found == {a \in FileList(st, ls, NoFilter) : a.agentId = agentId}
  IN IF found = {} THEN {Null} ELSE found

\* load(agentId) when at most one listed record has the id
FileLoad(st, ls, agentId) == CHOOSE a \in FileLoadResults(st, ls, agentId) : TRUE

FileFindByNameAndScope(st, ls, name, scope) ==
  LET path == getAgentPathByNameAndScope(ls, name, scope) IN
  IF ~ExistsSync(st, path) THEN Null
  ELSE IF path \in DOMAIN st.files /\ ParseOk(st.files[path])
       THEN Parse(st.files[path])
       ELSE Null

\* delete(agentId) once load has returned agent
FileDeleteLoaded(st, ls, agent) ==
  IF agent # Null /\ ExistsSync(st, getAgentPath(ls, agent))
  THEN UnlinkSync(st, getAgentPath(ls, agent))
  ELSE st

FileDelete(st, ls, agentId) == FileDeleteLoaded(st, ls, FileLoad(st, ls, agentId))

cleanEmptyDirs(st, ls) ==
  LET lifespanDir == Join(<<ls>>)
      scopeDirs == {d \in ReadDirSync(st, lifespanDir) : (lifespanDir \o <<d>>) \in st.dirs}
      \* files.length === 0 -> rmSync(scopePath, {recursive: true})
      empty == {lifespanDir \o <<d>> : d \in
                  {e \in scopeDirs : ReadDirSync(st, lifespanDir \o <<e>>) = {}}}
  IN IF ~ExistsSync(st, lifespanDir) \/ ls = PROJECT THEN st
     ELSE [st EXCEPT !.dirs = @ \ empty]

\* deleteMany(filter): the new storage state and the number returned.
\* A path is unlinked and counted once, at the first listed record that
\* maps to it: after that existsSync(path) is false.
FileDeleteMany(st, ls, filter) ==
  LET listed == FileList(st, ls, filter)
      paths == {q \in {getAgentPath(ls, a) : a \in listed} : ExistsSync(st, q)}
      st1 == [st EXCEPT !.files = Without(@, paths)]
  IN [st |-> cleanEmptyDirs(st1, ls), count |-> Cardinality(paths)]

\* ------------------------------------------------------------ AgentStorage
\* the operations of the AgentStorage interface on backend b
Save(st, b, agent) ==
  IF b = MEMORY THEN MemorySave(st, agent) ELSE FileSave(st, b, agent)
Load(st, b, agentId) ==
  IF b = MEMORY THEN MemoryLoad(st, agentId) ELSE FileLoad(st, b, agentId)
FindByNameAndScope(st, b, name, scope) ==
  IF b = MEMORY THEN MemoryFindByNameAndScope(st, name, scope)
  ELSE FileFindByNameAndScope(st, b, name, scope)
Delete(st, b, agentId) ==
  IF b = MEMORY THEN MemoryDelete(st, agentId) ELSE FileDelete(st, b, agentId)
DeleteMany(st, b, filter) ==
  IF b = MEMORY THEN MemoryDeleteMany(st, filter) ELSE FileDeleteMany(st, b, filter)
List(st, b, filter) ==
  IF b = MEMORY THEN MemoryList(st, filter) ELSE FileList(st, b, filter)

\* createFileStorages / Object.values(this.fileStorages): the file backends
\* in the order they are visited
FileStorages == <<SESSION, WORKFLOW, PROJECT>>

\* ------------------------------------------------------------ AgentRegistry
\* getStorage(lifespan) throws InvalidConfigError for an unknown lifespan
NoStorage == <<"<throws>">>

\* getStorage with context routed to the session file storage
getStorageContextOnDisk(lifespan) ==
  IF lifespan \in {EPHEMERAL, TURN} THEN MEMORY
  ELSE IF lifespan = CONTEXT THEN SESSION
  ELSE IF lifespan \in {SESSION, WORKFLOW, PROJECT} THEN lifespan
  ELSE NoStorage

getStorage(lifespan) ==
  IF lifespan \in {EPHEMERAL, TURN, CONTEXT} THEN MEMORY
  ELSE IF lifespan \in {SESSION, WORKFLOW, PROJECT} THEN lifespan
  ELSE NoStorage

\* e is process.env.CLAUDE_SESSION_ID
getScope(config, e) ==
  CASE config.lifespan = EPHEMERAL -> <<"ephemeral">>
    [] config.lifespan = TURN -> Coalesce(e, <<"turn">>)
    [] config.lifespan = CONTEXT -> Coalesce(e, <<"context">>)
    [] config.lifespan = SESSION ->
         Coalesce(config.sessionId, Coalesce(e, <<"unknown-session">>))
    [] config.lifespan = WORKFLOW -> config.workflowId
    [] config.lifespan = PROJECT -> Coalesce(config.projectPath, Cwd)
    [] OTHER -> <<"unknown">>

getDefaultScope(lifespan, e) ==
  CASE lifespan = EPHEMERAL -> <<"ephemeral">>
    [] lifespan = TURN -> Coalesce(e, <<"turn">>)
    [] lifespan = CONTEXT -> Coalesce(e, <<"context">>)
    [] lifespan = SESSION -> Coalesce(e, <<"unknown-session">>)
    [] lifespan = WORKFLOW -> EmptyStr
    [] lifespan = PROJECT -> Cwd
    [] OTHER -> <<"unknown">>

\* validateConfig that checks the name only
validateConfigNameOnly(config) == Truthy(config.name)

\* validateConfig(config): TRUE when it does not throw
validateConfig(config) ==
  /\ Truthy(config.name)
  /\ Truthy(config.lifespan)
  /\ (config.lifespan = WORKFLOW => Truthy(config.workflowId))

\* metadata[key] = value on a map held as a set of <<key, value>> pairs
SetKey(metadata, key, value) == {p \in metadata : p[1] # key} \cup {<<key, value>>}

\* a lifecycle event handed to the logger
AgentEvent(kind, agent) ==
  [event |-> kind, agentId |-> agent.agentId, agentName |-> agent.name,
   lifespan |-> agent.lifespan, scope |-> agent.scope]
CleanupEvent(what, count) ==
  [event |-> "lifecycle:cleanup", lifespan |-> what, disposedCount |-> count]
WorkflowEvent(kind, workflowId) == [event |-> kind, workflowId |-> workflowId]

Thrown(code) == [ok |-> FALSE, error |-> code, events |-> <<>>]

\* the record create builds when it found none: n is the number of the
\* UUID randomUUID() returns, now the clock
NewAgent(config, scope, now, n) ==
  LET \* config.metadata ?? {}
      base == IF config.metadata # NoMetadata THEN config.metadata ELSE {}
  IN [agentId |-> UUID(n),
      name |-> config.name,
      lifespan |-> config.lifespan,
      scope |-> scope,
      model |-> Coalesce(config.model, <<"haiku">>),
      createdAt |-> now,
      lastUsedAt |-> now,
      turnCount |-> 0,
      metadata |-> IF config.lifespan = WORKFLOW
                   THEN SetKey(base, "workflowType", config.workflowType)
                   ELSE base]

\* create that takes model and metadata of the new config over into the
\* record it found
createOverwrites(st, e, now, n, config) ==
  IF ~validateConfig(config) \/ getStorage(config.lifespan) = NoStorage
  THEN [st |-> st, res |-> Thrown("INVALID_CONFIG")]
  ELSE
    LET scope == getScope(config, e)
        storage == getStorage(config.lifespan)
        existing == FindByNameAndScope(st, storage, config.name, scope)
        agent == NewAgent(config, scope, now, n)
        updated == [existing EXCEPT !.lastUsedAt = now, !.model = agent.model,
                                    !.metadata = agent.metadata]
    IN IF existing # Null
       THEN [st |-> Save(st, storage, updated),
             res |-> [ok |-> TRUE, agent |-> updated, isNew |-> FALSE,
                      events |-> <<AgentEvent("agent:resumed", updated)>>]]
       ELSE [st |-> Save(st, storage, agent),
             res |-> [ok |-> TRUE, agent |-> agent, isNew |-> TRUE,
                      events |-> <<AgentEvent("agent:created", agent)>>]]

\* create(config) run from start to end: the new storage state and the
\* result.  e: the ambient session id, now: the clock, n: the number of the
\* next UUID.
create(st, e, now, n, config) ==
  IF ~validateConfig(config) \/ getStorage(config.lifespan) = NoStorage
  THEN [st |-> st, res |-> Thrown("INVALID_CONFIG")]
  ELSE
    LET scope == getScope(config, e)
        storage == getStorage(config.lifespan)
        existing == FindByNameAndScope(st, storage, config.name, scope)
        updated == [existing EXCEPT !.lastUsedAt = now]
        agent == NewAgent(config, scope, now, n)
    IN IF existing # Null
       THEN [st |-> Save(st, storage, updated),
             res |-> [ok |-> TRUE, agent |-> updated, isNew |-> FALSE,
                      events |-> <<AgentEvent("agent:resumed", updated)>>]]
       ELSE [st |-> Save(st, storage, agent),
             res |-> [ok |-> TRUE, agent |-> agent, isNew |-> TRUE,
                      events |-> <<AgentEvent("agent:created", agent)>>]]

\* the storages resume tries, in order
ResumeOrder == <<TURN, CONTEXT, SESSION, WORKFLOW, PROJECT>>

\* the agent the k-th tried storage holds for (name, scope), or Null
ResumeProbe(st, e, k, name, scope) ==
  FindByNameAndScope(st, getStorage(ResumeOrder[k]), name,
                     Coalesce(scope, getDefaultScope(ResumeOrder[k], e)))

\* resume that goes through all storages and keeps the last hit
resumeLastWins(st, e, now, name, scope) ==
  LET hits == {k \in 1..Len(ResumeOrder) : ResumeProbe(st, e, k, name, scope) # Null} IN
  IF hits = {} THEN [st |-> st, res |-> Thrown("AGENT_NOT_FOUND")]
  ELSE LET k == CHOOSE i \in hits : \A j \in hits : i >= j
           found == ResumeProbe(st, e, k, name, scope)
           agent == [found EXCEPT !.lastUsedAt = now, !.turnCount = @ + 1]
       IN [st |-> Save(st, getStorage(ResumeOrder[k]), agent),
           res |-> [ok |-> TRUE, agent |-> agent,
                    events |-> <<AgentEvent("agent:resumed", agent)>>]]

\* resume that stamps the record it found as made at the time of the call
resumeRestamps(st, e, now, name, scope) ==
  LET hits == {k \in 1..Len(ResumeOrder) : ResumeProbe(st, e, k, name, scope) # Null} IN
  IF hits = {} THEN [st |-> st, res |-> Thrown("AGENT_NOT_FOUND")]
  ELSE LET k == CHOOSE i \in hits : \A j \in hits : i <= j
           found == ResumeProbe(st, e, k, name, scope)
           agent == [found EXCEPT !.createdAt = now, !.lastUsedAt = now,
                                  !.turnCount = @ + 1]
       IN [st |-> Save(st, getStorage(ResumeOrder[k]), agent),
           res |-> [ok |-> TRUE, agent |-> agent,
                    events |-> <<AgentEvent("agent:resumed", agent)>>]]

\* resume that counts the turn and leaves lastUsedAt as it was
resumeKeepsLastUsed(st, e, now, name, scope) ==
  LET hits == {k \in 1..Len(ResumeOrder) : ResumeProbe(st, e, k, name, scope) # Null} IN
  IF hits = {} THEN [st |-> st, res |-> Thrown("AGENT_NOT_FOUND")]
  ELSE LET k == CHOOSE i \in hits : \A j \in hits : i <= j
           found == ResumeProbe(st, e, k, name, scope)
           agent == [found EXCEPT !.turnCount = @ + 1]
       IN [st |-> Save(st, getStorage(ResumeOrder[k]), agent),
           res |-> [ok |-> TRUE, agent |-> agent,
                    events |-> <<AgentEvent("agent:resumed", agent)>>]]

resume(st, e, now, name, scope) ==
  LET hits == {k \in 1..Len(ResumeOrder) : ResumeProbe(st, e, k, name, scope) # Null} IN
  IF hits = {} THEN [st |-> st, res |-> Thrown("AGENT_NOT_FOUND")]
  ELSE LET k == CHOOSE i \in hits : \A j \in hits : i <= j
           found == ResumeProbe(st, e, k, name, scope)
           agent == [found EXCEPT !.lastUsedAt = now, !.turnCount = @ + 1]
       IN [st |-> Save(st, getStorage(ResumeOrder[k]), agent),
           res |-> [ok |-> TRUE, agent |-> agent,
                    events |-> <<AgentEvent("agent:resumed", agent)>>]]

\* get(agentId): memory first, then the file storages in order
get(st, agentId) ==
  IF MemoryLoad(st, agentId) # Null THEN MemoryLoad(st, agentId)
  ELSE LET hits == {k \in 1..Len(FileStorages) :
                      FileLoad(st, FileStorages[k], agentId) # Null} IN
       IF hits = {} THEN Null
       ELSE FileLoad(st, FileStorages[CHOOSE i \in hits : \A j \in hits : i <= j], agentId)

dispose(st, agentId) ==
  LET agent == get(st, agentId) IN
  IF agent = Null THEN [st |-> st, res |-> [ok |-> TRUE, events |-> <<>>]]
  ELSE IF getStorage(agent.lifespan) = NoStorage
       THEN [st |-> st, res |-> Thrown("INVALID_CONFIG")]
       ELSE [st |-> Delete(st, getStorage(agent.lifespan), agentId),
             res |-> [ok |-> TRUE, events |-> <<AgentEvent("agent:disposed", agent)>>]]

disposeByLifespan(st, lifespan) ==
  IF getStorage(lifespan) = NoStorage
  THEN [st |-> st, res |-> Thrown("INVALID_CONFIG")]
  ELSE LET d == DeleteMany(st, getStorage(lifespan), Filter(lifespan, Undefined, Undefined))
       IN [st |-> d.st,
           res |-> [ok |-> TRUE, count |-> d.count,
                    events |-> <<CleanupEvent(lifespan, d.count)>>]]

disposeByScope(st, scope) ==
  LET f == Filter(Undefined, scope, Undefined)
      d0 == DeleteMany(st, MEMORY, f)
      d1 == DeleteMany(d0.st, FileStorages[1], f)
      d2 == DeleteMany(d1.st, FileStorages[2], f)
      d3 == DeleteMany(d2.st, FileStorages[3], f)
      total == d0.count + d1.count + d2.count + d3.count
  IN [st |-> d3.st,
      res |-> [ok |-> TRUE, count |-> total,
               counts |-> <<d0.count, d1.count, d2.count, d3.count>>,
               events |-> <<CleanupEvent(<<"scope:">> \o scope, total)>>]]

\* list(filter): the records of every backend
list(st, filter) ==
  MemoryList(st, filter) \cup UNION {FileList(st, ls, filter) : ls \in FileLifespans}

completeWorkflow(st, workflowId) ==
  LET d == FileDeleteMany(st, WORKFLOW, Filter(Undefined, workflowId, Undefined))
  IN [st |-> d.st,
      res |-> [ok |-> TRUE, count |-> d.count,
               events |-> <<WorkflowEvent("workflow:completed", workflowId)>>]]

getWorkflowAgents(st, workflowId) ==
  FileList(st, WORKFLOW, Filter(Undefined, workflowId, Undefined))

\* startWorkflow(config): create, and workflow:started on the isNew branch
startWorkflow(st, e, now, n, config) ==
  LET r == create(st, e, now, n, config) IN
  IF r.res.ok /\ r.res.isNew
  THEN [st |-> r.st,
        res |-> [r.res EXCEPT !.events =
                   @ \o <<WorkflowEvent("workflow:started", config.workflowId)>>]]
  ELSE r

\* ------------------------------------------------------------ LifecycleLogger
\* what the logger of the registry does with an event: "absent" returns at
\* once (debug is off), "writes" prints the event and appends it to the log
\* file, "fails" prints it and appendFileSync throws
Sinks == {"absent", "writes", "fails"}

\* the error appendFileSync or writeFileSync throws when the file system
\* refuses the write
FsFault == "EACCES"

\* log(event, data): TRUE when the call throws
LogThrows(sink) == sink = "fails"

\* a registry call whose logger has sink `sink`; r is the call as it runs
\* when every logger call returns.  No registry method catches: the first
\* logger call that throws ends the method with that error, after the
\* storage calls that came before it.
Logged(r, sink) ==
  IF r.res.events # <<>> /\ LogThrows(sink)
  THEN [st |-> r.st,
        res |-> [ok |-> FALSE, error |-> FsFault, events |-> <<r.res.events[1]>>]]
  ELSE r

\* save(agent) on a file storage when writeFileSync throws: the directory
\* was made before, the file is as it was
FileSaveThrows(st, ls, agent) ==
  LET dir == Dirname(getAgentPath(ls, agent))
  IN IF ExistsSync(st, dir) THEN st ELSE MkdirSync(st, dir)

\* create(config) when the write of its save is refused: a file storage
\* throws out of save, and create has no catch; the memory storage writes
\* no file
createWriteFails(st, e, now, n, config) ==
  IF ~validateConfig(config) \/ getStorage(config.lifespan) = NoStorage
  THEN [st |-> st, res |-> Thrown("INVALID_CONFIG")]
  ELSE
    LET scope == getScope(config, e)
        storage == getStorage(config.lifespan)
        existing == FindByNameAndScope(st, storage, config.name, scope)
        agent == IF existing # Null THEN [existing EXCEPT !.lastUsedAt = now]
                 ELSE NewAgent(config, scope, now, n)
    IN IF storage = MEMORY THEN create(st, e, now, n, config)
       ELSE [st |-> FileSaveThrows(st, storage, agent), res |-> Thrown(FsFault)]

\* resume(name, scope) when the write of its save is refused
resumeWriteFails(st, e, now, name, scope) ==
  LET hits == {k \in 1..Len(ResumeOrder) : ResumeProbe(st, e, k, name, scope) # Null} IN
  IF hits = {} THEN [st |-> st, res |-> Thrown("AGENT_NOT_FOUND")]
  ELSE LET k == CHOOSE i \in hits : \A j \in hits : i <= j
           storage == getStorage(ResumeOrder[k])
           found == ResumeProbe(st, e, k, name, scope)
           agent == [found EXCEPT !.lastUsedAt = now, !.turnCount = @ + 1]
       IN IF storage = MEMORY THEN resume(st, e, now, name, scope)
          ELSE [st |-> FileSaveThrows(st, storage, agent), res |-> Thrown(FsFault)]

\* ------------------------------------------------------------ inputs
\* names given to create and resume
NameInputs == {<<"a">>, <<"b">>}
\* scopes given to resume, disposeByScope and completeWorkflow
ScopeInputs == {EmptyStr, <<"s">>, <<"t">>}
\* process.env.CLAUDE_SESSION_ID
EnvInputs == {Undefined, <<"s">>}
\* config.sessionId, config.workflowId, config.projectPath
SessionIdInputs == {Undefined, EmptyStr, <<"s">>}
WorkflowIdInputs == {<<"s">>, <<"t">>}
ProjectPathInputs == {Undefined, <<"s">>}
\* the optional model and metadata of a config
NoExtra == [model |-> Undefined, metadata |-> NoMetadata]

Config(lifespan, name, extra, sessionId, workflowId, workflowType, projectPath) ==
  [lifespan |-> lifespan, name |-> name, model |-> extra.model,
   metadata |-> extra.metadata, sessionId |-> sessionId, workflowId |-> workflowId,
   workflowType |-> workflowType, projectPath |-> projectPath]

\* configs validateConfig accepts; each carries the field its lifespan reads
ConfigsNamed(n) ==
  {Config(l, n, NoExtra, Undefined, Undefined, Undefined, Undefined) :
     l \in {EPHEMERAL, TURN, CONTEXT}}
  \cup {Config(SESSION, n, NoExtra, sid, Undefined, Undefined, Undefined) :
     sid \in SessionIdInputs}
  \cup {Config(WORKFLOW, n, NoExtra, Undefined, wid, Undefined, Undefined) :
     wid \in WorkflowIdInputs}
  \cup {Config(PROJECT, n, NoExtra, Undefined, Undefined, Undefined, pp) :
     pp \in ProjectPathInputs}

\* every lifespan under the first name; under the second name one volatile
\* and one durable lifespan
ValidConfigs ==
  ConfigsNamed(<<"a">>)
  \cup {c \in ConfigsNamed(<<"b">>) :
          \/ c.lifespan = TURN
          \/ c.lifespan = SESSION /\ c.sessionId = <<"s">>}

\* configs validateConfig rejects: no name, workflow without a workflowId
InvalidConfigs ==
  {Config(TURN, EmptyStr, NoExtra, Undefined, Undefined, Undefined, Undefined),
   Config(WORKFLOW, <<"a">>, NoExtra, Undefined, Undefined, Undefined, Undefined),
   Config(WORKFLOW, <<"a">>, NoExtra, Undefined, EmptyStr, Undefined, Undefined)}

\* every way create rejects a config: those, no lifespan (validateConfig),
\* and a lifespan getStorage does not know
RejectedConfigs ==
  InvalidConfigs
  \cup {Config(Undefined, <<"a">>, NoExtra, Undefined, Undefined, Undefined, Undefined),
        Config(<<"forever">>, <<"a">>, NoExtra, Undefined, Undefined, Undefined, Undefined)}

ConfigInputs == ValidConfigs \cup InvalidConfigs

\* the callers that may have a call in flight at once
Callers == {"c1", "c2"}
\* a caller that has called nothing yet
NotCalled == [pc |-> "idle"]

\* ------------------------------------------------------------ Spec
\* new AgentRegistry(): an empty memory storage and the three lifespan
\* directories made by the FileStorage constructors
InitStore ==
  ensureBaseDir(ensureBaseDir(ensureBaseDir(
    [agents |-> EmptyFn, nameIndex |-> EmptyFn, files |-> EmptyFn, dirs |-> {<<>>}],
    SESSION), WORKFLOW), PROJECT)

Init ==
  /\ agents = InitStore.agents
  /\ nameIndex = InitStore.nameIndex
  /\ files = InitStore.files
  /\ dirs = InitStore.dirs
  /\ env \in EnvInputs
  /\ clock = 0
  /\ nextId = 0
  /\ ret = [op |-> "new"]
  /\ hist = EmptyFn
  /\ calls = [c \in Callers |-> NotCalled]

\* the storage state st becomes the state
Stored(st) ==
  /\ agents' = st.agents
  /\ nameIndex' = st.nameIndex
  /\ files' = st.files
  /\ dirs' = st.dirs

\* a call that runs from start to end with no other call in flight: the
\* storage state st becomes the state, and ret records the call
Becomes(st, op, arg, res) ==
  /\ Stored(st)
  /\ ret' = [op |-> op, arg |-> arg, res |-> res]
  /\ UNCHANGED calls

\* every record the backends hold: the values of the memory map and the
\* parsed content of every file below basePath
AllRecords(st) ==
  {st.agents[i] : i \in DOMAIN st.agents}
  \cup {Parse(st.files[q]) : q \in {z \in DOMAIN st.files : ParseOk(st.files[z])}}

\* the records backend b holds: the memory map, or the files below the
\* directory of the file backend
HeldBy(st, b) ==
  IF b = MEMORY THEN {st.agents[i] : i \in DOMAIN st.agents}
  ELSE {Parse(st.files[q]) : q \in {z \in DOMAIN st.files :
          ParseOk(st.files[z]) /\ z[1] = b}}

\* hist without the ids that storage state st no longer holds
Surviving(h, st) ==
  [id \in {i \in DOMAIN h : \E r \in AllRecords(st) : r.agentId = i} |-> h[id]]

\* the clock readings a call can make: time stands still or moves on
Now == {t \in {clock, clock + 1} : t <= MaxClock}

\* create(config) called at time now
Create(config, now) ==
  LET r == create(Store, env, now, nextId + 1, config)
      isNew == r.res.ok /\ r.res.isNew
  IN /\ isNew => nextId < MaxIds
     /\ Becomes(r.st, "create", config, r.res)
     /\ clock' = now
     /\ nextId' = IF isNew THEN nextId + 1 ELSE nextId
     /\ hist' = IF isNew THEN (r.res.agent.agentId :> config) @@ hist ELSE hist
     /\ UNCHANGED env

\* resume(name, scope) called at time now
Resume(name, scope, now) ==
  LET r == resume(Store, env, now, name, scope) IN
  /\ r.res.ok => r.res.agent.turnCount <= MaxTurn
  /\ Becomes(r.st, "resume", <<name, scope>>, r.res)
  /\ clock' = now
  /\ UNCHANGED <<env, nextId, hist>>

Dispose(agentId) ==
  LET r == dispose(Store, agentId) IN
  /\ Becomes(r.st, "dispose", agentId, r.res)
  /\ hist' = Surviving(hist, r.st)
  /\ UNCHANGED <<env, clock, nextId>>

DisposeByLifespan(lifespan) ==
  LET r == disposeByLifespan(Store, lifespan) IN
  /\ Becomes(r.st, "disposeByLifespan", lifespan, r.res)
  /\ hist' = Surviving(hist, r.st)
  /\ UNCHANGED <<env, clock, nextId>>

DisposeByScope(scope) ==
  LET r == disposeByScope(Store, scope) IN
  /\ Becomes(r.st, "disposeByScope", scope, r.res)
  /\ hist' = Surviving(hist, r.st)
  /\ UNCHANGED <<env, clock, nextId>>

CompleteWorkflow(workflowId) ==
  LET r == completeWorkflow(Store, workflowId) IN
  /\ Becomes(r.st, "completeWorkflow", workflowId, r.res)
  /\ hist' = Surviving(hist, r.st)
  /\ UNCHANGED <<env, clock, nextId>>

\* Spec: creation and disposal, every call made within one clock reading
Next ==
  \/ \E config \in ConfigInputs : Create(config, clock)
  \/ \E n \in 1..MaxIds : Dispose(UUID(n))
  \/ \E lifespan \in Lifespans : DisposeByLifespan(lifespan)
  \/ \E scope \in ScopeInputs : DisposeByScope(scope)
  \/ \E workflowId \in ScopeInputs : CompleteWorkflow(workflowId)

Spec == Init /\ [][Next]_vars

\* ------------------------------------------------------------ SpecConc
\* create(config) as the event loop runs it: an async function runs until
\* its next await, where other calls may run.  The storage methods have no
\* await inside, so each runs whole when called.
\*
\* up to `await storage.findByNameAndScope(config.name, scope)`
CreateBegin(c, config) ==
  /\ calls[c].pc = "idle"
  /\ calls' = [calls EXCEPT ![c] =
       IF ~validateConfig(config) \/ getStorage(config.lifespan) = NoStorage
       THEN [pc |-> "done", config |-> config, res |-> Thrown("INVALID_CONFIG")]
       ELSE [pc |-> "found", config |-> config,
             scope |-> getScope(config, env),
             storage |-> getStorage(config.lifespan),
             existing |-> FindByNameAndScope(Store, getStorage(config.lifespan),
                                             config.name, getScope(config, env))]]
  /\ UNCHANGED <<agents, nameIndex, files, dirs, env, clock, nextId, ret, hist>>

\* from the result of findByNameAndScope up to `await storage.save(...)`.
\* A record found in the memory storage is the stored object itself: the
\* assignment to lastUsedAt changes the object the map holds.
CreateWrite(c, now) ==
  /\ calls[c].pc = "found"
  /\ LET call == calls[c]
         found == call.existing
         object == IF call.storage = MEMORY /\ found # Null
                      /\ found.agentId \in DOMAIN agents
                   THEN agents[found.agentId] ELSE found
         agent == IF found # Null THEN [object EXCEPT !.lastUsedAt = now]
                  ELSE NewAgent(call.config, call.scope, now, nextId + 1)
     IN /\ found = Null => nextId < MaxIds
        /\ Stored(Save(Store, call.storage, agent))
        /\ nextId' = IF found = Null THEN nextId + 1 ELSE nextId
        /\ calls' = [calls EXCEPT ![c] =
             [call EXCEPT !.pc = "saved"]
               @@ [agent |-> agent, isNew |-> found = Null,
                   \* how many saves of in-flight creates came before
                   order |-> Cardinality({d \in Callers :
                                            calls[d].pc \in {"saved", "done"}
                                            /\ "agent" \in DOMAIN calls[d]})]]
  /\ clock' = now
  /\ UNCHANGED <<env, ret, hist>>

\* after save: the logger is told, and the call returns
CreateReturn(c) ==
  /\ calls[c].pc = "saved"
  /\ calls' = [calls EXCEPT ![c] =
       [pc |-> "done", config |-> @.config, scope |-> @.scope,
        storage |-> @.storage, existing |-> @.existing, order |-> @.order,
        res |-> [ok |-> TRUE, agent |-> @.agent, isNew |-> @.isNew,
                 events |-> <<AgentEvent(IF @.isNew THEN "agent:created"
                                         ELSE "agent:resumed", @.agent)>>]]]
  /\ UNCHANGED <<agents, nameIndex, files, dirs, env, clock, nextId, ret, hist>>

NextConc ==
  \/ \E c \in Callers, config \in ConfigInputs : CreateBegin(c, config)
  \/ \E c \in Callers, now \in Now : CreateWrite(c, now)
  \/ \E c \in Callers : CreateReturn(c)

SpecConc == Init /\ [][NextConc]_vars

\* ------------------------------------------------------------ SpecResume
\* get(agentId)
Get(agentId) ==
  /\ Becomes(Store, "get", agentId,
             [ok |-> TRUE, agent |-> get(Store, agentId), events |-> <<>>])
  /\ UNCHANGED <<env, clock, nextId, hist>>

\* the configs of SpecResume: a record for every backend resume searches;
\* the session scope comes from the environment or is the empty sessionId
ResumeConfigs ==
  {Config(TURN, <<"a">>, NoExtra, Undefined, Undefined, Undefined, Undefined),
   Config(SESSION, <<"a">>, NoExtra, Undefined, Undefined, Undefined, Undefined),
   Config(SESSION, <<"a">>, NoExtra, EmptyStr, Undefined, Undefined, Undefined),
   Config(WORKFLOW, <<"a">>, NoExtra, Undefined, <<"s">>, <<"w">>, Undefined),
   Config(PROJECT, <<"a">>, NoExtra, Undefined, Undefined, Undefined, <<"s">>)}

\* the scope argument of resume: left out, or given
ResumeScopes == {Undefined} \cup ScopeInputs

\* CLAUDE_SESSION_ID may also be set to the empty string
InitResume ==
  /\ agents = InitStore.agents
  /\ nameIndex = InitStore.nameIndex
  /\ files = InitStore.files
  /\ dirs = InitStore.dirs
  /\ env \in EnvInputs \cup {EmptyStr}
  /\ clock = 0
  /\ nextId = 0
  /\ ret = [op |-> "new"]
  /\ hist = EmptyFn
  /\ calls = [c \in Callers |-> NotCalled]

\* SpecResume: creation, resume, lookup and disposal, one call after
\* another; the clock may have moved on when resume reads it
NextResume ==
  \/ \E config \in ResumeConfigs : Create(config, clock)
  \/ \E name \in NameInputs, scope \in ResumeScopes, now \in Now :
       Resume(name, scope, now)
  \/ \E n \in 1..MaxIds : Get(UUID(n))
  \/ \E n \in 1..MaxIds : Dispose(UUID(n))

SpecResume == InitResume /\ [][NextResume]_vars

\* ------------------------------------------------------------ SpecRestart
\* a new process builds a registry on the same base path: getMemoryStorage()
\* makes a new, empty MemoryStorage and each FileStorage constructor runs
\* ensureBaseDir on the file tree the old process left
NewRegistry(st) ==
  ensureBaseDir(ensureBaseDir(ensureBaseDir(
    [st EXCEPT !.agents = EmptyFn, !.nameIndex = EmptyFn],
    SESSION), WORKFLOW), PROJECT)

\* the process exits and a new one starts, with its own environment
Restart ==
  /\ Becomes(NewRegistry(Store), "restart", <<>>,
             [ok |-> TRUE, events |-> <<>>,
              \* the records that were held in memory only
              lost |-> Cardinality(DOMAIN agents)])
  /\ env' \in EnvInputs
  /\ hist' = Surviving(hist, NewRegistry(Store))
  /\ UNCHANGED <<clock, nextId>>

\* the configs of SpecRestart: a record for every backend, the session
\* backend with an empty and a non-empty scope, and the rejected configs
RestartConfigs ==
  {Config(TURN, <<"a">>, NoExtra, Undefined, Undefined, Undefined, Undefined),
   Config(SESSION, <<"a">>, NoExtra, EmptyStr, Undefined, Undefined, Undefined),
   Config(SESSION, <<"a">>, NoExtra, <<"s">>, Undefined, Undefined, Undefined),
   Config(WORKFLOW, <<"a">>, NoExtra, Undefined, <<"s">>, <<"w">>, Undefined),
   Config(PROJECT, <<"a">>, NoExtra, Undefined, Undefined, Undefined, <<"s">>)}
  \cup RejectedConfigs

\* SpecRestart: creation and disposal within one clock reading, and
\* restarts of the process
NextRestart ==
  \/ \E config \in RestartConfigs : Create(config, clock)
  \/ \E n \in 1..MaxIds : Dispose(UUID(n))
  \/ Restart

SpecRestart == Init /\ [][NextRestart]_vars

\* ------------------------------------------------------------ SpecStorage
\* The AgentStorage interface called on a MemoryStorage and on the session
\* FileStorage side by side: every call is made on both with the same
\* arguments, and ret holds the two results.
\*
\* a record handed to save
StorageRecord(n, name, scope, turnCount) ==
  [NewAgent(Config(SESSION, name, NoExtra, scope, Undefined, Undefined, Undefined),
            scope, 0, n) EXCEPT !.turnCount = turnCount]

\* the records save is called with: ids shared by records of two scopes
StorageRecords ==
  {StorageRecord(n, <<"a">>, scope, turnCount) :
     n \in 1..MaxIds, scope \in {<<"s">>, <<"t">>}, turnCount \in {0, 1}}

\* the filters list and deleteMany are called with, each with at least one
\* field and none with an empty string
StorageFilters ==
  {Filter(SESSION, Undefined, Undefined), Filter(Undefined, <<"s">>, Undefined),
   Filter(Undefined, Undefined, <<"a">>), Filter(Undefined, <<"t">>, <<"a">>)}

\* both backends have answered a call
Answers(st, op, arg, memory, file) ==
  /\ Stored(st)
  /\ ret' = [op |-> op, arg |-> arg, res |-> [memory |-> memory, file |-> file]]
  /\ UNCHANGED <<env, clock, nextId, hist, calls>>

StorageSave(agent) ==
  Answers(FileSave(MemorySave(Store, agent), SESSION, agent),
          "save", agent, "void", "void")

\* FileStorage.load returns the first listed record of the id, in the order
\* readdirSync lists the files
StorageLoad(agentId) ==
  \E loaded \in FileLoadResults(Store, SESSION, agentId) :
    Answers(Store, "load", agentId, MemoryLoad(Store, agentId), loaded)

StorageFind(name, scope) ==
  Answers(Store, "findByNameAndScope", <<name, scope>>,
          MemoryFindByNameAndScope(Store, name, scope),
          FileFindByNameAndScope(Store, SESSION, name, scope))

StorageDelete(agentId) ==
  \E loaded \in FileLoadResults(Store, SESSION, agentId) :
    Answers(FileDeleteLoaded(MemoryDelete(Store, agentId), SESSION, loaded),
            "delete", agentId, "void", "void")

StorageDeleteMany(filter) ==
  LET m == MemoryDeleteMany(Store, filter)
      f == FileDeleteMany(m.st, SESSION, filter)
  IN Answers(f.st, "deleteMany", filter, m.count, f.count)

StorageList(filter) ==
  Answers(Store, "list", filter, MemoryList(Store, filter),
          FileList(Store, SESSION, filter))

NextStorage ==
  \/ \E agent \in StorageRecords : StorageSave(agent)
  \/ \E n \in 1..MaxIds : StorageLoad(UUID(n))
  \/ \E name \in NameInputs, scope \in {<<"s">>, <<"t">>} : StorageFind(name, scope)
  \/ \E n \in 1..MaxIds : StorageDelete(UUID(n))
  \/ \E filter \in StorageFilters : StorageDeleteMany(filter)
  \/ \E filter \in StorageFilters \cup {NoFilter} : StorageList(filter)

SpecStorage == Init /\ [][NextStorage]_vars

\* ------------------------------------------------------------ SpecTurns
\* resume(name, scope) as the event loop runs it: the call is suspended at
\* the await of every findByNameAndScope and at the await of save, and
\* other calls may run there.
\*
\* the k-th probe of the call: a hit leaves the loop, a miss goes on to the
\* next storage, and after the last miss AgentNotFoundError is thrown
ResumeAt(st, e, name, scope, k) ==
  LET found == ResumeProbe(st, e, k, name, scope) IN
  IF found # Null
  THEN [pc |-> "resuming", name |-> name, scope |-> scope, k |-> k, found |-> found]
  ELSE IF k < Len(ResumeOrder)
       THEN [pc |-> "probing", name |-> name, scope |-> scope, k |-> k + 1]
       ELSE [pc |-> "done", name |-> name, scope |-> scope,
             res |-> Thrown("AGENT_NOT_FOUND")]

\* up to the first `await storage.findByNameAndScope(name, searchScope)`
ResumeBegin(c, name, scope) ==
  /\ calls[c].pc = "idle"
  /\ calls' = [calls EXCEPT ![c] = ResumeAt(Store, env, name, scope, 1)]
  /\ UNCHANGED <<agents, nameIndex, files, dirs, env, clock, nextId, ret, hist>>

\* a probe that found nothing has returned: the next storage is probed
ResumeSearch(c) ==
  /\ calls[c].pc = "probing"
  /\ calls' = [calls EXCEPT ![c] =
       ResumeAt(Store, env, calls[c].name, calls[c].scope, calls[c].k)]
  /\ UNCHANGED <<agents, nameIndex, files, dirs, env, clock, nextId, ret, hist>>

\* from the probe that found the record up to `await storage.save(agent)`.
\* A record found in the memory storage is the stored object itself; a
\* record found in a file storage is the copy the probe parsed.
ResumeWrite(c, now) ==
  /\ calls[c].pc = "resuming"
  /\ LET call == calls[c]
         storage == getStorage(ResumeOrder[call.k])
         object == IF storage = MEMORY /\ call.found.agentId \in DOMAIN agents
                   THEN agents[call.found.agentId] ELSE call.found
         agent == [object EXCEPT !.lastUsedAt = now, !.turnCount = @ + 1]
     IN /\ agent.turnCount <= MaxTurn
        /\ Stored(Save(Store, storage, agent))
        /\ calls' = [calls EXCEPT ![c] =
             [pc |-> "resumed", name |-> call.name, scope |-> call.scope,
              k |-> call.k, found |-> call.found, agent |-> agent]]
  /\ clock' = now
  /\ UNCHANGED <<env, nextId, ret, hist>>

\* after save: the logger is told, and the call returns
ResumeReturn(c) ==
  /\ calls[c].pc = "resumed"
  /\ calls' = [calls EXCEPT ![c] =
       [pc |-> "done", name |-> @.name, scope |-> @.scope,
        res |-> [ok |-> TRUE, agent |-> @.agent,
                 events |-> <<AgentEvent("agent:resumed", @.agent)>>]]]
  /\ UNCHANGED <<agents, nameIndex, files, dirs, env, clock, nextId, ret, hist>>

\* no call is suspended
NoneInFlight == \A c \in Callers : calls[c].pc \in {"idle", "done"}

\* the configs of SpecTurns: one record in the memory storage and one in a
\* file storage, both of the scope the environment gives
TurnsConfigs ==
  {Config(TURN, <<"a">>, NoExtra, Undefined, Undefined, Undefined, Undefined),
   Config(SESSION, <<"a">>, NoExtra, <<"s">>, Undefined, Undefined, Undefined)}

\* SpecTurns: creates made one at a time while nothing else runs, and one
\* create or resume per caller interleaved at their awaits
NextTurns ==
  \/ \E config \in TurnsConfigs : NoneInFlight /\ Create(config, clock)
  \/ \E c \in Callers, config \in TurnsConfigs : CreateBegin(c, config)
  \/ \E c \in Callers, now \in Now : CreateWrite(c, now)
  \/ \E c \in Callers : CreateReturn(c)
  \/ \E c \in Callers, scope \in {Undefined, <<"s">>} : ResumeBegin(c, <<"a">>, scope)
  \/ \E c \in Callers : ResumeSearch(c)
  \/ \E c \in Callers, now \in Now : ResumeWrite(c, now)
  \/ \E c \in Callers : ResumeReturn(c)

SpecTurns == Init /\ [][NextTurns]_vars

\* ------------------------------------------------------------ SpecHooks
\* hooks/lifecycle-manager.ts: the handlers the host calls.  Each wraps its
\* registry call in try/catch, so what the call throws stays in the handler.
\*
\* try { ... } catch (error) { console.error(...) }: the handler returns
\* normally whatever the registry call r did
Caught(r) ==
  [st |-> r.st,
   res |-> [ok |-> TRUE, caught |-> ~r.res.ok, events |-> r.res.events]]

\* a Stop handler that disposes the context agents
onStopContext(st, sink) == Caught(Logged(disposeByLifespan(st, CONTEXT), sink))

\* manager.onStop(handler)
onStop(st, sink) == Caught(Logged(disposeByLifespan(st, TURN), sink))

\* manager.onSessionEnd(handler), input.session_id = sessionId
onSessionEnd(st, sessionId, sink) == Caught(Logged(disposeByScope(st, sessionId), sink))

\* handler run r has returned to the host
Handled(r, op, arg) ==
  /\ Becomes(r.st, op, arg, r.res)
  /\ hist' = Surviving(hist, r.st)
  /\ UNCHANGED <<env, clock, nextId>>

\* the host delivers Stop
OnStop(sink) == Handled(onStop(Store, sink), "onStop", sink)

\* the host delivers SessionEnd
OnSessionEnd(sessionId, sink) ==
  Handled(onSessionEnd(Store, sessionId, sink), "onSessionEnd", <<sessionId, sink>>)

\* the configs of SpecHooks: two turn records, the other lifespans the
\* memory storage holds, and a session record
HookConfigs ==
  {Config(l, <<"a">>, NoExtra, Undefined, Undefined, Undefined, Undefined) :
     l \in {EPHEMERAL, TURN, CONTEXT}}
  \cup {Config(TURN, <<"b">>, NoExtra, Undefined, Undefined, Undefined, Undefined),
        Config(CONTEXT, <<"b">>, NoExtra, Undefined, Undefined, Undefined, Undefined),
        Config(SESSION, <<"a">>, NoExtra, <<"s">>, Undefined, Undefined, Undefined)}

\* SpecHooks: creation, the start of a process that builds its registry as
\* the hook script does, and the notifications of the host
NextHooks ==
  \/ \E config \in HookConfigs : Create(config, clock)
  \/ Restart
  \/ \E sink \in Sinks : OnStop(sink)
  \/ \E sessionId \in {<<"s">>, <<"t">>}, sink \in Sinks : OnSessionEnd(sessionId, sink)

SpecHooks == Init /\ [][NextHooks]_vars

\* ------------------------------------------------------------ SpecFaults
\* The registry with a logger that is off, writes, or throws, and with a
\* file system that may refuse a write.  ret also records the sink of the
\* call and whether a write was refused.
\*
\* the call that ran as r has returned
Returned(r, op, arg, sink, fault) ==
  /\ Stored(r.st)
  /\ ret' = [op |-> op, arg |-> arg, res |-> r.res, sink |-> sink, fault |-> fault]
  /\ hist' = Surviving(IF op \in {"create", "startWorkflow"}
                             /\ r.res.ok /\ r.res.isNew
                          THEN (r.res.agent.agentId :> arg) @@ hist
                          ELSE hist, r.st)
  /\ UNCHANGED <<env, clock, calls>>

CreateLogged(config, sink) ==
  LET plain == create(Store, env, clock, nextId + 1, config)
      saved == plain.res.ok /\ plain.res.isNew
  IN /\ saved => nextId < MaxIds
     /\ Returned(Logged(plain, sink), "create", config, sink, FALSE)
     /\ nextId' = IF saved THEN nextId + 1 ELSE nextId

StartWorkflowLogged(config, sink) ==
  LET plain == startWorkflow(Store, env, clock, nextId + 1, config)
      saved == plain.res.ok /\ plain.res.isNew
  IN /\ saved => nextId < MaxIds
     /\ Returned(Logged(plain, sink), "startWorkflow", config, sink, FALSE)
     /\ nextId' = IF saved THEN nextId + 1 ELSE nextId

ResumeLogged(name, scope, sink) ==
  LET plain == resume(Store, env, clock, name, scope) IN
  /\ plain.res.ok => plain.res.agent.turnCount <= MaxTurn
  /\ Returned(Logged(plain, sink), "resume", <<name, scope>>, sink, FALSE)
  /\ UNCHANGED nextId

DisposeLogged(agentId, sink) ==
  /\ Returned(Logged(dispose(Store, agentId), sink), "dispose", agentId, sink, FALSE)
  /\ UNCHANGED nextId

DisposeByLifespanLogged(lifespan, sink) ==
  /\ Returned(Logged(disposeByLifespan(Store, lifespan), sink),
              "disposeByLifespan", lifespan, sink, FALSE)
  /\ UNCHANGED nextId

DisposeByScopeLogged(scope, sink) ==
  /\ Returned(Logged(disposeByScope(Store, scope), sink),
              "disposeByScope", scope, sink, FALSE)
  /\ UNCHANGED nextId

CompleteWorkflowLogged(workflowId, sink) ==
  /\ Returned(Logged(completeWorkflow(Store, workflowId), sink),
              "completeWorkflow", workflowId, sink, FALSE)
  /\ UNCHANGED nextId

\* create(config) on a file storage whose writeFileSync throws
CreateWriteFails(config) ==
  LET r == createWriteFails(Store, env, clock, nextId + 1, config)
      \* randomUUID() was called before the save
      fresh == FindByNameAndScope(Store, getStorage(config.lifespan),
                                  config.name, getScope(config, env)) = Null
  IN /\ ~r.res.ok /\ r.res.error = FsFault
     /\ fresh => nextId < MaxIds
     /\ Returned(r, "create", config, "absent", TRUE)
     /\ nextId' = IF fresh THEN nextId + 1 ELSE nextId

\* resume(name, scope) that finds its record in a file storage whose
\* writeFileSync throws
ResumeWriteFails(name, scope) ==
  LET r == resumeWriteFails(Store, env, clock, name, scope) IN
  /\ ~r.res.ok /\ r.res.error = FsFault
  /\ Returned(r, "resume", <<name, scope>>, "absent", TRUE)
  /\ UNCHANGED nextId

\* the configs of SpecFaults: a memory record, a file record, and a
\* workflow record for startWorkflow and completeWorkflow
FaultConfigs ==
  {Config(TURN, <<"a">>, NoExtra, Undefined, Undefined, Undefined, Undefined),
   Config(SESSION, <<"a">>, NoExtra, <<"s">>, Undefined, Undefined, Undefined)}
WorkflowConfigs ==
  {Config(WORKFLOW, <<"a">>, NoExtra, Undefined, <<"t">>, <<"w">>, Undefined)}

NextFaults ==
  \/ \E config \in FaultConfigs \cup InvalidConfigs, sink \in Sinks :
       CreateLogged(config, sink)
  \/ \E config \in WorkflowConfigs, sink \in Sinks : StartWorkflowLogged(config, sink)
  \/ \E name \in NameInputs, scope \in {Undefined, <<"s">>}, sink \in Sinks :
       ResumeLogged(name, scope, sink)
  \/ \E n \in 1..MaxIds, sink \in Sinks : DisposeLogged(UUID(n), sink)
  \/ \E lifespan \in {TURN, SESSION}, sink \in Sinks :
       DisposeByLifespanLogged(lifespan, sink)
  \/ \E scope \in {<<"s">>, <<"t">>}, sink \in Sinks : DisposeByScopeLogged(scope, sink)
  \/ \E workflowId \in {<<"t">>}, sink \in Sinks :
       CompleteWorkflowLogged(workflowId, sink)
  \/ \E config \in FaultConfigs : CreateWriteFails(config)
  \/ \E name \in NameInputs, scope \in {Undefined, <<"s">>} : ResumeWriteFails(name, scope)

SpecFaults == Init /\ [][NextFaults]_vars

\* ------------------------------------------------------------ SpecCorrupt
\* A file storage whose tree also holds documents JSON.parse rejects: a
\* write that was cut short, or a file another program left there.
\*
\* the file at path is left with malformed content
CorruptFile(path) ==
  LET st == WriteFileSync(Store, path, CorruptDoc) IN
  /\ Dirname(path) \in dirs
  /\ Becomes(st, "corrupt", path, [ok |-> TRUE, events |-> <<>>])
  /\ hist' = Surviving(hist, st)
  /\ UNCHANGED <<env, clock, nextId>>

\* list(filter) called on the file storage of lifespan ls
FileListCall(ls, filter) ==
  /\ Becomes(Store, "fileList", <<ls, filter>>,
             [ok |-> TRUE, agents |-> FileList(Store, ls, filter), events |-> <<>>])
  /\ UNCHANGED <<env, clock, nextId, hist>>

\* the configs of SpecCorrupt: records in one session directory, in a
\* workflow directory and in the project directory
CorruptConfigs ==
  {Config(SESSION, n, NoExtra, <<"s">>, Undefined, Undefined, Undefined) : n \in NameInputs}
  \cup {Config(WORKFLOW, <<"a">>, NoExtra, Undefined, <<"s">>, <<"w">>, Undefined),
        Config(PROJECT, <<"a">>, NoExtra, Undefined, Undefined, Undefined, <<"s">>)}

\* the files that are left malformed: one a record is written to, and one
\* beside the records in each directory list() reads
CorruptPaths ==
  {Join(<<SESSION, <<"s">>, JsonFile(<<"a">>)>>),
   Join(<<SESSION, <<"s">>, JsonFile(<<"x">>)>>),
   Join(<<WORKFLOW, <<"s">>, JsonFile(<<"x">>)>>),
   Join(<<PROJECT, JsonFile(<<"x">>)>>)}

NextCorrupt ==
  \/ \E config \in CorruptConfigs : Create(config, clock)
  \/ \E path \in CorruptPaths : CorruptFile(path)
  \/ \E ls \in FileLifespans,
        filter \in {NoFilter, Filter(Undefined, <<"s">>, Undefined)} :
       FileListCall(ls, filter)
  \/ \E scope \in {<<"s">>} : DisposeByScope(scope)

SpecCorrupt == Init /\ [][NextCorrupt]_vars

\* ------------------------------------------------------------ SpecOrder
\* the configs of SpecOrder: one name in every storage resume searches; the
\* turn and the session record take their scope from the environment, so
\* with CLAUDE_SESSION_ID = "s" all four records have the scope "s"
OrderConfigs ==
  {Config(TURN, <<"a">>, NoExtra, Undefined, Undefined, Undefined, Undefined),
   Config(SESSION, <<"a">>, NoExtra, Undefined, Undefined, Undefined, Undefined),
   Config(WORKFLOW, <<"a">>, NoExtra, Undefined, <<"s">>, <<"w">>, Undefined),
   Config(PROJECT, <<"a">>, NoExtra, Undefined, Undefined, Undefined, <<"s">>)}

\* SpecOrder: creation in every storage, and resume with and without a
\* scope; the clock may have moved on when resume reads it
NextOrder ==
  \/ \E config \in OrderConfigs : Create(config, clock)
  \/ \E scope \in {Undefined, <<"s">>}, now \in Now : Resume(<<"a">>, scope, now)

SpecOrder == Init /\ [][NextOrder]_vars

\* ------------------------------------------------------------ SpecPaths
\* the names resume is called with: the name of the records, and names
\* with a path separator in them
PathNames == {<<"a">>, <<"s", "/", "a">>, <<"t", "/", "a">>}

\* SpecPaths: creation in every storage, and resume by names that path.join
\* splits into several segments, within one clock reading
NextPaths ==
  \/ \E config \in OrderConfigs : Create(config, clock)
  \/ \E name \in PathNames, scope \in {Undefined, <<"s">>} : Resume(name, scope, clock)

SpecPaths == Init /\ [][NextPaths]_vars

\* ------------------------------------------------------------ SpecScope
\* configs of every lifespan; a caller may put a sessionId on a config of
\* any lifespan, getScope reads it for the session lifespan only
ScopeConfigs ==
  {Config(l, <<"a">>, NoExtra, sid, Undefined, Undefined, Undefined) :
     l \in {EPHEMERAL, TURN, CONTEXT, SESSION}, sid \in {Undefined, <<"t">>}}
  \cup {Config(WORKFLOW, <<"a">>, NoExtra, Undefined, wid, Undefined, Undefined) :
     wid \in WorkflowIdInputs}
  \cup {Config(PROJECT, <<"a">>, NoExtra, Undefined, Undefined, Undefined, pp) :
     pp \in ProjectPathInputs}

\* SpecScope: creation only, with and without CLAUDE_SESSION_ID set
NextScope == \E config \in ScopeConfigs : Create(config, clock)

SpecScope == Init /\ [][NextScope]_vars

\* ------------------------------------------------------------ SpecTouch
\* the optional fields of a config: left out, or given
ExtraInputs ==
  {NoExtra,
   [model |-> <<"opus">>, metadata |-> NoMetadata],
   [model |-> Undefined, metadata |-> {<<"k", <<"v">>>>}]}

\* a volatile and a durable record under one name, registered again with
\* other optional fields
TouchConfigs ==
  {Config(TURN, <<"a">>, x, Undefined, Undefined, Undefined, Undefined) :
     x \in ExtraInputs}
  \cup {Config(SESSION, <<"a">>, x, <<"s">>, Undefined, Undefined, Undefined) :
     x \in ExtraInputs}

\* SpecTouch: creation and resume, one call after another; the clock may
\* have moved on when a call reads it
NextTouch ==
  \/ \E config \in TouchConfigs, now \in Now : Create(config, now)
  \/ \E scope \in {Undefined, <<"s">>}, now \in Now : Resume(<<"a">>, scope, now)

SpecTouch == Init /\ [][NextTouch]_vars

\* ------------------------------------------------------------ SpecLife
\* a volatile record and a record of the workflow storage
LifeConfigs ==
  {Config(TURN, <<"a">>, NoExtra, Undefined, Undefined, Undefined, Undefined),
   Config(WORKFLOW, <<"a">>, NoExtra, Undefined, <<"t">>, <<"w">>, Undefined)}

\* SpecLife: every operation that stores, rewrites or removes a record, one
\* call after another; the clock may have moved on when create or resume
\* reads it
NextLife ==
  \/ \E config \in LifeConfigs, now \in Now : Create(config, now)
  \/ \E scope \in {Undefined, <<"t">>}, now \in Now : Resume(<<"a">>, scope, now)
  \/ \E n \in 1..MaxIds : Dispose(UUID(n))
  \/ DisposeByLifespan(TURN)
  \/ DisposeByScope(<<"t">>)
  \/ CompleteWorkflow(<<"t">>)

SpecLife == Init /\ [][NextLife]_vars

\* ------------------------------------------------------------ SpecPrune
\* deleteMany(filter) called on the file storage of lifespan ls
FileDeleteManyCall(ls, filter) ==
  LET d == FileDeleteMany(Store, ls, filter) IN
  /\ Becomes(d.st, "fileDeleteMany", <<ls, filter>>,
             [ok |-> TRUE, count |-> d.count, events |-> <<>>])
  /\ hist' = Surviving(hist, d.st)
  /\ UNCHANGED <<env, clock, nextId>>

\* two records of one session, a record of another session, of no session,
\* of a workflow and of the project
PruneConfigs ==
  {Config(SESSION, n, NoExtra, <<"s">>, Undefined, Undefined, Undefined) : n \in NameInputs}
  \cup {Config(SESSION, <<"a">>, NoExtra, <<"t">>, Undefined, Undefined, Undefined),
        Config(SESSION, <<"a">>, NoExtra, EmptyStr, Undefined, Undefined, Undefined),
        Config(WORKFLOW, <<"a">>, NoExtra, Undefined, <<"s">>, <<"w">>, Undefined),
        Config(PROJECT, <<"a">>, NoExtra, Undefined, Undefined, Undefined, <<"s">>)}

\* the filters deleteMany is called with: none, a scope, a name
PruneFilters ==
  {NoFilter, Filter(Undefined, <<"s">>, Undefined), Filter(Undefined, Undefined, <<"a">>)}

\* SpecPrune: creation, dispose of one record, which unlinks its file, and
\* deleteMany on each file storage
NextPrune ==
  \/ \E config \in PruneConfigs : Create(config, clock)
  \/ \E n \in 1..MaxIds : Dispose(UUID(n))
  \/ \E ls \in FileLifespans, filter \in PruneFilters : FileDeleteManyCall(ls, filter)

SpecPrune == Init /\ [][NextPrune]_vars

\* ------------------------------------------------------------ SpecIndex
\* the (name, scope) pairs of the records save is called with; in two of
\* them a ':' stands in the name or in the scope
IndexPairs ==
  {<<(<<"a">>), (<<"s">>)>>, <<(<<"a">>), (<<"t">>)>>,
   <<(<<"a", ":", "b">>), (<<"c">>)>>, <<(<<"a">>), (<<"b", ":", "c">>)>>}

\* the records save is called with: every pair under every id
IndexRecords == {StorageRecord(n, p[1], p[2], 0) : n \in 1..MaxIds, p \in IndexPairs}

\* the filters deleteMany is called with: the name and scope of a pair
IndexFilters == {Filter(Undefined, p[2], p[1]) : p \in IndexPairs}

\* a call of the MemoryStorage has returned
MemoryAnswers(st, op, arg, res) ==
  /\ Stored(st)
  /\ ret' = [op |-> op, arg |-> arg, res |-> res]
  /\ UNCHANGED <<env, clock, nextId, hist, calls>>

MemorySaveCall(agent) == MemoryAnswers(MemorySave(Store, agent), "save", agent, "void")

MemoryDeleteCall(agentId) ==
  MemoryAnswers(MemoryDelete(Store, agentId), "delete", agentId, "void")

MemoryDeleteManyCall(filter) ==
  MemoryAnswers(MemoryDeleteMany(Store, filter).st, "deleteMany", filter,
                MemoryDeleteMany(Store, filter).count)

\* SpecIndex: save, delete and deleteMany of the MemoryStorage in any order
NextIndex ==
  \/ \E agent \in IndexRecords : MemorySaveCall(agent)
  \/ \E n \in 1..MaxIds : MemoryDeleteCall(UUID(n))
  \/ \E filter \in IndexFilters : MemoryDeleteManyCall(filter)

SpecIndex == Init /\ [][NextIndex]_vars

\* ------------------------------------------------------------ SpecRevive
\* disposal while a create or a resume is suspended at an await.  A
\* disposal is taken at the step in which its storage deletes: what it
\* awaits before that step only reads the record.
\*
\* the configs of SpecRevive: a record of the memory storage and a record
\* of a file storage
ReviveConfigs ==
  {Config(TURN, <<"a">>, NoExtra, Undefined, Undefined, Undefined, Undefined),
   Config(WORKFLOW, <<"a">>, NoExtra, Undefined, <<"s">>, <<"w">>, Undefined)}

\* SpecRevive: creates made while nothing else runs, the create or resume
\* of one caller suspended at its awaits, and the four disposal calls at
\* any time
NextRevive ==
  \/ \E config \in ReviveConfigs : NoneInFlight /\ Create(config, clock)
  \/ \E config \in ReviveConfigs : CreateBegin("c1", config)
  \/ CreateWrite("c1", clock)
  \/ CreateReturn("c1")
  \/ \E scope \in {Undefined, <<"s">>} : ResumeBegin("c1", <<"a">>, scope)
  \/ ResumeSearch("c1")
  \/ ResumeWrite("c1", clock)
  \/ ResumeReturn("c1")
  \/ \E n \in 1..MaxIds : Dispose(UUID(n))
  \/ DisposeByLifespan(TURN)
  \/ DisposeByScope(<<"s">>)
  \/ CompleteWorkflow(<<"s">>)

SpecRevive == Init /\ [][NextRevive]_vars

C2_DisposeByScopeExact ==
  [][ret'.op = "disposeByScope"
       => \A b \in Backends :
            HeldBy(Store', b) = {r \in HeldBy(Store, b) : r.scope # ret'.arg}]_vars

\* C3: disposeByLifespan(L) returns the number of records of lifespan L that
\* were stored, list({lifespan: L}) is empty afterwards, and the records of
\* every other lifespan are still listed, unchanged.
C3_DisposeByLifespanCount ==
  [][(ret'.op = "disposeByLifespan" /\ ret'.res.ok)
       => /\ ret'.res.count =
               Cardinality({r \in AllRecords(Store) : r.lifespan = ret'.arg})
          /\ list(Store', Filter(ret'.arg, Undefined, Undefined)) = {}
          /\ {r \in list(Store, NoFilter) : r.lifespan # ret'.arg}
               = {r \in list(Store', NoFilter) : r.lifespan # ret'.arg}]_vars

\* C4: completeWorkflow(W) removes the workflow records whose scope is W and
\* returns their number; workflow records of another workflow id and the
\* records of every other lifespan stay stored unchanged.
C4_CompleteWorkflowExact ==
  [][ret'.op = "completeWorkflow"
       => /\ AllRecords(Store') =
               {r \in AllRecords(Store) :
                  ~(r.lifespan = WORKFLOW /\ r.scope = ret'.arg)}
          /\ ret'.res.count =
               Cardinality({r \in AllRecords(Store) :
                  r.lifespan = WORKFLOW /\ r.scope = ret'.arg})]_vars

\* C5: disposeByScope(S) returns the sum of the counts of the four backends,
\* and that sum is the number of records stored before the call and absent
\* after it.
C5_DisposeByScopeCount ==
  [][ret'.op = "disposeByScope"
       => /\ ret'.res.count = ret'.res.counts[1] + ret'.res.counts[2]
                                + ret'.res.counts[3] + ret'.res.counts[4]
          /\ \A k \in 1..4 :
               ret'.res.counts[k] =
                 Cardinality(HeldBy(Store, (<<MEMORY>> \o FileStorages)[k])
                             \ HeldBy(Store', (<<MEMORY>> \o FileStorages)[k]))
          /\ ret'.res.count = Cardinality(AllRecords(Store) \ AllRecords(Store'))
          /\ AllRecords(Store') \subseteq AllRecords(Store)]_vars

\* disposeByScope has removed records of the memory backend and of a file
\* backend in one call
C5_Witness ==
  /\ ret.op = "disposeByScope"
  /\ ret.res.counts[1] >= 1
  /\ ret.res.counts[2] + ret.res.counts[3] + ret.res.counts[4] >= 1
  /\ ret.res.count = 2

\* the tier of a lifespan: ephemeral, turn, context -> the memory backend;
\* session, workflow, project -> the file backend of that lifespan
TierOf(lifespan) ==
  IF lifespan \in {EPHEMERAL, TURN, CONTEXT} THEN MEMORY ELSE lifespan

\* backend b hands out record r: by its id, or by its name and scope
Retrievable(st, b, r) ==
  \/ Load(st, b, r.agentId) = r
  \/ FindByNameAndScope(st, b, r.name, r.scope) = r

SameRecord(x, y) == x # Null /\ y # Null /\ Stringify(x) = Stringify(y)

\* C8: after save(record) returns, load(record.agentId) and
\* findByNameAndScope(record.name, record.scope) on that backend both return
\* a record equal to the one saved; checked on the save every create makes.
C8_SaveThenLoadAndFind ==
  [][(ret'.op = "create" /\ ret'.res.ok)
       => LET saved == ret'.res.agent
              b == getStorage(saved.lifespan)
          IN /\ SameRecord(Load(Store', b, saved.agentId), saved)
             /\ SameRecord(FindByNameAndScope(Store', b, saved.name, saved.scope),
                           saved)]_vars

\* the scopes findByNameAndScope is asked for
ProbeScopes == ScopeInputs \cup {Cwd, <<"ephemeral">>, <<"turn">>, <<"context">>}

\* C9: findByNameAndScope(name, scope) returns a record only if the record's
\* name is name and its scope is scope, on every backend.
C9_FindExactMatch ==
  \A b \in Backends, name \in NameInputs, scope \in ProbeScopes :
    LET r == FindByNameAndScope(Store, b, name, scope) IN
    r # Null => r.name = name /\ r.scope = scope

\* the filters list and deleteMany are called with
FilterInputs ==
  {Filter(l, sc, n) : l \in {Undefined, TURN, SESSION},
                      sc \in {Undefined, EmptyStr, <<"s">>},
                      n \in {Undefined, EmptyStr, <<"a">>}}

\* a record matches a filter iff every field the filter gives equals the
\* record's field
MatchesEveryPresentField(r, f) ==
  /\ f.lifespan # Undefined => r.lifespan = f.lifespan
  /\ f.scope # Undefined => r.scope = f.scope
  /\ f.name # Undefined => r.name = f.name

\* C10: on every backend list(filter) returns, and deleteMany(filter)
\* removes and counts, exactly the listed records that equal the filter in
\* every field the filter gives, the empty string being a value like another.
C10_FilterSemantics ==
  \A b \in Backends, f \in FilterInputs :
    LET all == List(Store, b, NoFilter)
        matching == {r \in all : MatchesEveryPresentField(r, f)}
        d == DeleteMany(Store, b, f)
    IN /\ List(Store, b, f) = matching
       /\ d.count = Cardinality(matching)
       /\ List(d.st, b, NoFilter) = all \ matching

\* two create calls have returned that were made for the same name and
\* scope on the same storage and both found no record
BothCreatedUnseen(c, d) ==
  /\ c # d
  /\ calls[c].pc = "done" /\ calls[d].pc = "done"
  /\ calls[c].res.ok /\ calls[d].res.ok
  /\ calls[c].storage = calls[d].storage
  /\ calls[c].config.name = calls[d].config.name
  /\ calls[c].scope = calls[d].scope
  /\ calls[c].existing = Null /\ calls[d].existing = Null

\* C7: two overlapping create calls for the same (name, scope) that both
\* observed not-found both return isNew = true with different ids, and
\* findByNameAndScope then returns the record that was written last.
C7_ConcurrentCreateRace ==
  \A c \in Callers, d \in Callers :
    (BothCreatedUnseen(c, d) /\ calls[c].order < calls[d].order)
      => /\ calls[c].res.isNew /\ calls[d].res.isNew
         /\ calls[c].res.agent.agentId # calls[d].res.agent.agentId
         /\ SameRecord(FindByNameAndScope(Store, calls[d].storage,
                                          calls[d].config.name, calls[d].scope),
                       calls[d].res.agent)

\* the race has happened on a file backend
C7_Witness ==
  \E c \in Callers, d \in Callers :
    /\ BothCreatedUnseen(c, d)
    /\ calls[c].order < calls[d].order
    /\ calls[c].storage = SESSION

\* C11: resume(name), called without a scope, on an existing record returns
\* that record with turnCount one greater than stored and lastUsedAt not
\* smaller than before, and a following get(id) returns the record as resumed.
C11_ResumeCountsAndPersists ==
  [][(ret'.op = "resume" /\ ret'.res.ok /\ ret'.arg[2] = Undefined)
       => LET after == ret'.res.agent
              before == {r \in AllRecords(Store) : r.agentId = after.agentId}
          IN /\ before # {}
             /\ \A r \in before :
                  /\ after.turnCount = r.turnCount + 1
                  /\ after.lastUsedAt >= r.lastUsedAt
                  /\ [after EXCEPT !.turnCount = 0, !.lastUsedAt = 0]
                       = [r EXCEPT !.turnCount = 0, !.lastUsedAt = 0]
             /\ SameRecord(get(Store', after.agentId), after)]_vars

\* C12: a resume(name, scope) with a scope given that succeeds returns a
\* record of that name and that scope, and it fails with not-found when no
\* backend holds a record of exactly that name and scope.
C12_ResumeExplicitScope ==
  [][(ret'.op = "resume" /\ ret'.arg[2] # Undefined)
       => /\ ret'.res.ok => /\ ret'.res.agent.name = ret'.arg[1]
                            /\ ret'.res.agent.scope = ret'.arg[2]
          /\ (~\E r \in AllRecords(Store) :
                 r.name = ret'.arg[1] /\ r.scope = ret'.arg[2])
               => (~ret'.res.ok /\ ret'.res.error = "AGENT_NOT_FOUND")]_vars

\* some backend resume searches holds a record of this name under the scope
\* resume searches that backend with
HoldsFor(st, e, name, scope) ==
  \E k \in 1..Len(ResumeOrder) :
    \E r \in HeldBy(st, TierOf(ResumeOrder[k])) :
      /\ r.name = name
      /\ r.scope = (IF scope # Undefined THEN scope
                    ELSE getDefaultScope(ResumeOrder[k], e))

\* C14: resume fails, with not-found, exactly when no searched backend holds
\* a record for the name and the searched scope, and then changes nothing;
\* get, load and dispose of an id no record has return null or do nothing
\* and do not fail.
C14_NotFoundOnlyFromResume ==
  [][/\ ret'.op = "resume"
          => /\ ~ret'.res.ok <=> ~HoldsFor(Store, env, ret'.arg[1], ret'.arg[2])
             /\ ~ret'.res.ok => (ret'.res.error = "AGENT_NOT_FOUND" /\ Store' = Store)
     /\ (ret'.op \in {"get", "dispose"}
          /\ ~\E r \in AllRecords(Store) : r.agentId = ret'.arg)
          => /\ ret'.res.ok
             /\ Store' = Store
             /\ ret'.op = "get" => ret'.res.agent = Null
             /\ \A b \in Backends : Load(Store, b, ret'.arg) = Null]_vars

\* a config the claim says create rejects: empty name, missing lifespan,
\* unrecognized lifespan, workflow without a workflowId
Rejected(config) ==
  \/ config.name = EmptyStr
  \/ config.lifespan = Undefined
  \/ config.lifespan \notin Lifespans
  \/ config.lifespan = WORKFLOW /\ config.workflowId = Undefined

\* C13: create with an empty name, a missing or unrecognized lifespan, or
\* lifespan workflow without a workflowId fails with an invalid-configuration
\* error, leaves every backend unchanged and emits no event.
C13_InvalidConfigRejected ==
  [][(ret'.op = "create" /\ Rejected(ret'.arg))
       => /\ ~ret'.res.ok
          /\ ret'.res.error = "INVALID_CONFIG"
          /\ ret'.res.events = <<>>
          /\ Store' = Store]_vars

\* a config without a lifespan and a workflow config without a workflowId
\* are rejected while records are stored
C13_Witness ==
  /\ ret.op = "create"
  /\ ~ret.res.ok
  /\ ret.arg.lifespan \in {Undefined, WORKFLOW}
  /\ ret.arg.name # EmptyStr
  /\ AllRecords(Store) # {}

\* C15: dispose(id) removes exactly the record of that id when one exists:
\* get(id) then returns null, every other record stays stored and is found
\* by id and by name and scope, and one disposed event is emitted; when no
\* record has the id nothing changes, nothing is raised and no event is
\* emitted.
C15_DisposeExact ==
  [][ret'.op = "dispose"
       => LET with == {r \in AllRecords(Store) : r.agentId = ret'.arg} IN
          /\ ret'.res.ok
          /\ with # {}
               => /\ get(Store', ret'.arg) = Null
                  /\ AllRecords(Store') = AllRecords(Store) \ with
                  /\ \A r \in AllRecords(Store) \ with :
                       /\ get(Store', r.agentId) = r
                       /\ FindByNameAndScope(Store', TierOf(r.lifespan),
                                             r.name, r.scope) = r
                  /\ Len(ret'.res.events) = 1
                  /\ ret'.res.events[1].event = "agent:disposed"
                  /\ ret'.res.events[1].agentId = ret'.arg
          /\ with = {} => (Store' = Store /\ ret'.res.events = <<>>)]_vars

\* C16: every stored record, from the create that returned it until a
\* disposal removes it, is returned by get(its id) with the same fields.
C16_CreatedIsGettable ==
  \A r \in AllRecords(Store) : SameRecord(get(Store, r.agentId), r)

\* the registry on storage st hands out record r with its id and metadata:
\* by get(id), or by resume(name, scope)
FoundBy(st, e, r) ==
  \/ LET g == get(st, r.agentId)
     IN g # Null /\ g.agentId = r.agentId /\ g.metadata = r.metadata
  \/ LET x == resume(st, e, clock, r.name, r.scope).res
     IN x.ok /\ x.agent.agentId = r.agentId /\ x.agent.metadata = r.metadata

\* C17: across a restart the file tree keeps every session, workflow and
\* project record, each is still found by get or resume with its id and
\* metadata unchanged, and every ephemeral, turn and context record is gone.
C17_RestartKeepsDurable ==
  [][ret'.op = "restart"
       => /\ \A b \in FileLifespans : HeldBy(Store', b) = HeldBy(Store, b)
          /\ \A r \in AllRecords(Store) :
               (r.lifespan \in FileLifespans /\ FoundBy(Store, env, r))
                 => FoundBy(Store', env', r)
          /\ \A r \in AllRecords(Store) :
               r.lifespan \in {EPHEMERAL, TURN, CONTEXT}
                 => /\ r \notin AllRecords(Store')
                    /\ get(Store', r.agentId) = Null
                    /\ ~FoundBy(Store', env', r)]_vars

\* a restart has dropped a memory record and kept a file record that get
\* returns
C17_Witness ==
  /\ ret.op = "restart"
  /\ ret.res.lost >= 1
  /\ \E r \in AllRecords(Store) :
       r.lifespan \in FileLifespans /\ get(Store, r.agentId) = r

\* C18: after calls made one after another no backend holds two records of
\* the same name and scope.
C18_NameUniquePerScope ==
  \A b \in Backends :
    \A r1 \in HeldBy(Store, b), r2 \in HeldBy(Store, b) :
      (r1.name = r2.name /\ r1.scope = r2.scope) => r1 = r2

\* one backend holds two records of the same name under different scopes
C18_Witness ==
  \E b \in Backends :
    \E r1 \in HeldBy(Store, b), r2 \in HeldBy(Store, b) :
      r1.name = r2.name /\ r1.scope # r2.scope

\* C19: the memory backend and a file backend answer every call of a
\* sequence of save, load, findByNameAndScope, delete, deleteMany and list
\* calls alike, list results compared as sets.
C19_BackendsAgree ==
  ret.op \in {"save", "load", "findByNameAndScope", "delete", "deleteMany", "list"}
    => ret.res.memory = ret.res.file

\* C20: on both backends save(record) leaves stored exactly the records
\* stored before whose id is another, and the record saved.
C20_SaveUpsertsById ==
  [][ret'.op = "save"
       => \A b \in {MEMORY, SESSION} :
            HeldBy(Store', b)
              = {x \in HeldBy(Store, b) : x.agentId # ret'.arg.agentId}
                  \cup {ret'.arg}]_vars

\* the step is the save of a resume
SavedByResume ==
  \/ ret' # ret /\ ret'.op = "resume"
  \/ \E c \in Callers : calls[c].pc = "resuming" /\ calls'[c].pc = "resumed"

\* C21: the turnCount of every stored record is a natural number; from one
\* step to the next the turnCount stored for a record id never decreases,
\* and it changes only in the save of a resume, however the calls
\* interleave.
C21_TurnCountOnlyGrows ==
  [][/\ \A r \in AllRecords(Store') : r.turnCount \in Nat
     /\ \A r1 \in AllRecords(Store), r2 \in AllRecords(Store') :
          r1.agentId = r2.agentId
            => /\ r2.turnCount >= r1.turnCount
               /\ r2.turnCount # r1.turnCount => SavedByResume]_vars

\* C22: when create of an ephemeral config has returned, the registry holds
\* no ephemeral record: list() shows none, and the create itself returned
\* isNew = true, also when the name was used before.
C22_EphemeralNotRetained ==
  [][(ret'.op = "create" /\ ret'.res.ok /\ ret'.arg.lifespan = EPHEMERAL)
       => /\ ret'.res.isNew
          /\ \A r \in list(Store', NoFilter) : r.lifespan # EPHEMERAL]_vars

Outcome(res) == [f \in (DOMAIN res) \ {"events"} |-> res[f]]

\* the registry operation op called with arg in the current state, every
\* logger call returning
Plain(op, arg) ==
  CASE op = "create" -> create(Store, env, clock, nextId + 1, arg)
    [] op = "startWorkflow" -> startWorkflow(Store, env, clock, nextId + 1, arg)
    [] op = "resume" -> resume(Store, env, clock, arg[1], arg[2])
    [] op = "dispose" -> dispose(Store, arg)
    [] op = "disposeByLifespan" -> disposeByLifespan(Store, arg)
    [] op = "disposeByScope" -> disposeByScope(Store, arg)
    [] op = "completeWorkflow" -> completeWorkflow(Store, arg)

\* C24: for create, resume, dispose, disposeByLifespan, disposeByScope,
\* startWorkflow and completeWorkflow, what the call returns and the storage
\* state it leaves are the same whether the logger is off, writes, or
\* throws when written to.
C24_SinkIndependence ==
  [][("fault" \in DOMAIN ret' /\ ~ret'.fault)
       => /\ Outcome(ret'.res) = Outcome(Plain(ret'.op, ret'.arg).res)
          /\ Store' = Plain(ret'.op, ret'.arg).st]_vars

\* C25: a create that succeeds hands the logger exactly one event,
\* agent:created for the record when isNew and agent:resumed when not; a
\* resume that succeeds hands it exactly one agent:resumed event; a create
\* or resume that fails hands it none.
C25_OneEventPerOutcome ==
  [][ret'.op \in {"create", "resume"}
       => IF ret'.res.ok
          THEN /\ Len(ret'.res.events) = 1
               /\ ret'.res.events[1].agentId = ret'.res.agent.agentId
               /\ ret'.res.events[1].event =
                    (IF ret'.op = "create" /\ ret'.res.isNew
                     THEN "agent:created" ELSE "agent:resumed")
          ELSE ret'.res.events = <<>>]_vars

\* C27: a create or resume whose write the file system refuses fails with
\* code STORAGE_ERROR; a call whose writes all complete, a file that is
\* missing included, never fails with that code.
C27_WriteFaultIsStorageError ==
  [][("fault" \in DOMAIN ret' /\ ret' # ret)
       => IF ret'.fault
          THEN ~ret'.res.ok /\ ret'.res.error = "STORAGE_ERROR"
          ELSE ~ret'.res.ok => ret'.res.error # "STORAGE_ERROR"]_vars

\* the files list() of file storage ls reads: the .json entries of the
\* project directory, or of the scope directories of ls
ListedFiles(st, ls) ==
  {p \in DOMAIN st.files :
     /\ p[1] = ls
     /\ Len(p) = (IF ls = PROJECT THEN 2 ELSE 3)
     /\ Dirname(p) \in st.dirs
     /\ EndsWithJson(p[Len(p)])}

\* C26: list() of a file storage, without a filter or with a scope filter,
\* returns exactly the records of the well-formed documents in the
\* directories it reads, raises nothing, and leaves every file, the
\* malformed ones included, as it was.
C26_ListSkipsMalformed ==
  [][ret'.op = "fileList"
       => LET ls == ret'.arg[1]
              filter == ret'.arg[2]
              valid == {Parse(files[p]) :
                          p \in {q \in ListedFiles(Store, ls) : ParseOk(files[q])}}
          IN /\ ret'.res.ok
             /\ ret'.res.agents =
                  {a \in valid : filter = NoFilter \/ a.scope = filter.scope}
             /\ files' = files /\ dirs' = dirs
             /\ \A p \in ListedFiles(Store, ls) :
                  ~ParseOk(files[p]) => (p \in DOMAIN files' /\ files'[p] = CorruptDoc)]_vars

\* list() has returned a record from a directory that also holds a
\* malformed document
C26_Witness ==
  /\ ret.op = "fileList"
  /\ \E p \in ListedFiles(Store, ret.arg[1]), q \in ListedFiles(Store, ret.arg[1]) :
       /\ Dirname(p) = Dirname(q)
       /\ ~ParseOk(files[p])
       /\ ParseOk(files[q]) /\ Parse(files[q]) \in ret.res.agents

\* the order the claim gives: turn, context, session, workflow, project
ClaimedOrder == <<TURN, CONTEXT, SESSION, WORKFLOW, PROJECT>>
\* the position of lifespan l in that order
TierIndex(l) == CHOOSE k \in 1..Len(ClaimedOrder) : ClaimedOrder[k] = l

\* the stored records a resume(name, scope) is looking for: those of a
\* searched lifespan with the name and with the scope given or, when none
\* is given, the default scope of their lifespan
Sought(st, e, name, scope) ==
  {r \in AllRecords(st) :
     /\ r.lifespan \in {ClaimedOrder[k] : k \in 1..Len(ClaimedOrder)}
     /\ r.name = name
     /\ r.scope = Coalesce(scope, getDefaultScope(r.lifespan, e))}

C29_UnscopedResumeSkipsWorkflow ==
  [][(ret'.op = "resume" /\ ret'.arg[2] = Undefined)
       => /\ ret'.res.ok => ret'.res.agent.lifespan # WORKFLOW
          /\ HeldBy(Store', WORKFLOW) = HeldBy(Store, WORKFLOW)]_vars


\* the scope of a new record as the specification states it, the sessionId
\* of the config being the explicit override of a turn or context record
ScopeAsStated(config, e) ==
  CASE config.lifespan = EPHEMERAL -> <<"ephemeral">>
    [] config.lifespan = TURN ->
         IF config.sessionId # Undefined THEN config.sessionId
         ELSE IF e # Undefined THEN e ELSE <<"turn">>
    [] config.lifespan = CONTEXT ->
         IF config.sessionId # Undefined THEN config.sessionId
         ELSE IF e # Undefined THEN e ELSE <<"context">>
    [] config.lifespan = SESSION ->
         IF config.sessionId # Undefined THEN config.sessionId
         ELSE IF e # Undefined THEN e ELSE <<"unknown-session">>
    [] config.lifespan = WORKFLOW -> config.workflowId
    [] config.lifespan = PROJECT ->
         IF config.projectPath # Undefined THEN config.projectPath ELSE Cwd

\* C30: the record a create has newly made carries the scope stated for its
\* lifespan: "ephemeral"; for turn and context the explicit override, else
\* the ambient session id, else "turn" or "context"; for session the
\* sessionId, else the ambient session id, else "unknown-session"; for
\* workflow the workflowId; for project the projectPath, else the working
\* directory.  The stored record carries the same scope.
C30_ScopeOfNewRecord ==
  [][(ret'.op = "create" /\ ret'.res.ok /\ ret'.res.isNew)
       => /\ ret'.res.agent.scope = ScopeAsStated(ret'.arg, env)
          /\ \E r \in AllRecords(Store') :
               /\ r.agentId = ret'.res.agent.agentId
               /\ r.scope = ScopeAsStated(ret'.arg, env)]_vars


\* C31: a create that found a record for (name, scope) returns that record
\* with lastUsedAt set to the time of the call and every other field as it
\* was stored (id, name, lifespan, scope, model, metadata, createdAt,
\* turnCount), whatever model and metadata the config carries; the stored
\* record is the returned one and every other record is unchanged.
C31_ExistingOnlyTouched ==
  [][(ret'.op = "create" /\ ret'.res.ok /\ ~ret'.res.isNew)
       => /\ \E old \in AllRecords(Store) :
               /\ old.agentId = ret'.res.agent.agentId
               /\ ret'.res.agent = [old EXCEPT !.lastUsedAt = clock']
          /\ \A r \in AllRecords(Store') :
               \/ r = ret'.res.agent
               \/ r.agentId # ret'.res.agent.agentId /\ r \in AllRecords(Store)
          /\ ret'.res.agent \in AllRecords(Store')]_vars

\* a create found a resumed record made at an earlier time, and its config
\* carries a model or metadata the record does not have
C31_Witness ==
  /\ ret.op = "create"
  /\ ret.res.ok
  /\ ~ret.res.isNew
  /\ ret.res.agent.turnCount > 0
  /\ ret.res.agent.lastUsedAt > ret.res.agent.createdAt
  /\ \/ ret.arg.model # Undefined /\ ret.arg.model # ret.res.agent.model
     \/ ret.arg.metadata # NoMetadata /\ ret.arg.metadata # ret.res.agent.metadata


\* the fields of a record that are fixed when it is made
Identity(r) == <<r.agentId, r.name, r.lifespan, r.scope, r.createdAt>>

\* the number of the randomUUID() call that returned id
IssuedAt(id) == CHOOSE n \in 1..(MaxIds + 1) : UUID(n) = id

\* C32: a record stored before and after an operation has the same id,
\* name, lifespan, scope and createdAt; no two stored records share an id;
\* and an id that comes to be stored is one randomUUID() has just returned,
\* later than every id issued before, so no id is given to a second record.
C32_IdentityImmutable ==
  [][/\ \A r1 \in AllRecords(Store), r2 \in AllRecords(Store') :
          r1.agentId = r2.agentId => Identity(r1) = Identity(r2)
     /\ \A r1, r2 \in AllRecords(Store') :
          r1.agentId = r2.agentId => Identity(r1) = Identity(r2)
     /\ \A r2 \in AllRecords(Store') :
          (\A r1 \in AllRecords(Store) : r1.agentId # r2.agentId)
            => /\ nextId' = nextId + 1
               /\ IssuedAt(r2.agentId) = nextId'
     /\ \A r2 \in AllRecords(Store') : IssuedAt(r2.agentId) <= nextId']_vars

\* a record was resumed at a later time than it was made, after another
\* record had been made and removed
C32_Witness ==
  /\ ret.op = "resume"
  /\ ret.res.ok
  /\ ret.res.agent.lastUsedAt > ret.res.agent.createdAt
  /\ ret.res.agent \in AllRecords(Store)
  /\ nextId > Cardinality(AllRecords(Store))


\* the last call found a stored record and wrote it back: a create that
\* hit an existing record, or a resume
Touched(r) ==
  \/ r.op = "create" /\ r.res.ok /\ ~r.res.isNew
  \/ r.op = "resume" /\ r.res.ok

\* C33: with a clock that never goes back, every stored record has
\* lastUsedAt >= createdAt after every operation, and after a create that
\* hit an existing record and after a resume the returned record and the
\* stored one have lastUsedAt equal to the time of the call.
C33_LastUsedFollowsClock ==
  [][/\ clock' >= clock
     /\ \A r \in AllRecords(Store') :
          r.lastUsedAt >= r.createdAt /\ r.lastUsedAt <= clock'
     /\ Touched(ret')
          => /\ ret'.res.agent.lastUsedAt = clock'
             /\ \A r \in AllRecords(Store') :
                  r.agentId = ret'.res.agent.agentId => r.lastUsedAt = clock']_vars

\* a create has hit a record made at an earlier time, or a resume has, and
\* the record stored now is used later than it was made
C33_Witness ==
  /\ Touched(ret)
  /\ ret.res.agent \in AllRecords(Store)
  /\ ret.res.agent.createdAt < clock
  /\ ret.res.agent.lastUsedAt = clock
  /\ ret.op = "create"


\* the directories directly below the directory of file storage ls
ScopeDirs(st, ls) == {q \in st.dirs : Len(q) = 2 /\ q[1] = ls}

\* the files directly in directory dir
FilesIn(st, dir) == {q \in DOMAIN st.files : Len(q) = Len(dir) + 1 /\ Dirname(q) = dir}

\* C34: when deleteMany(filter) has returned on a file storage, no record
\* of that storage that matched the filter is stored any more and its file
\* is gone; on the session and the workflow storage no scope directory is
\* left without a file; on the project storage the directories are as
\* before.
C34_DeleteManyPrunes ==
  [][ret'.op = "fileDeleteMany"
       => LET ls == ret'.arg[1]
              filter == ret'.arg[2]
          IN /\ \A r \in HeldBy(Store, ls) :
                    (filter = NoFilter \/ MatchesEveryPresentField(r, filter))
                      => /\ r \notin HeldBy(Store', ls)
                         /\ getAgentPath(ls, r) \notin DOMAIN files'
             /\ ls \in {SESSION, WORKFLOW}
                  => \A d \in ScopeDirs(Store', ls) : FilesIn(Store', d) # {}
             /\ ls = PROJECT => dirs' = dirs]_vars


\* every record of the primary index is the one findByNameAndScope returns
\* for its name and scope
PrimaryIndexed(st) ==
  \A id \in DOMAIN st.agents :
    MemoryFindByNameAndScope(st, st.agents[id].name, st.agents[id].scope) = st.agents[id]

\* every entry of the name+scope index points to a stored record, and its
\* key is the key of that record's name and scope
NameIndexSound(st) ==
  \A key \in DOMAIN st.nameIndex :
    /\ st.nameIndex[key] \in DOMAIN st.agents
    /\ getNameKey(st.agents[st.nameIndex[key]].name,
                  st.agents[st.nameIndex[key]].scope) = key

\* stored records of distinct (name, scope) pairs have distinct index keys
KeysDistinct(st) ==
  \A i, j \in DOMAIN st.agents :
    getNameKey(st.agents[i].name, st.agents[i].scope)
      = getNameKey(st.agents[j].name, st.agents[j].scope)
    => st.agents[i].name = st.agents[j].name /\ st.agents[i].scope = st.agents[j].scope

\* C35: after every save, delete and deleteMany of the volatile backend,
\* every record of the primary index is found by its name and scope, every
\* entry of the name+scope index points to a stored record of that name and
\* scope, and distinct (name, scope) pairs have distinct keys.
C35_MemoryIndicesConsistent ==
  [][ret'.op \in {"save", "delete", "deleteMany"}
       => /\ KeysDistinct(Store')
          /\ PrimaryIndexed(Store')
          /\ NameIndexSound(Store')]_vars


\* C36: the record a successful create(config) returns has the lifespan
\* and the name of config and the scope getScope resolves for config under
\* the ambient session id, whatever is stored already.
C36_CreateReturnsOwnKind ==
  [][(ret'.op = "create" /\ ret'.res.ok)
       => /\ ret'.res.agent.lifespan = ret'.arg.lifespan
          /\ ret'.res.agent.name = ret'.arg.name
          /\ ret'.res.agent.scope = getScope(ret'.arg, env)]_vars


\* the n-th id randomUUID() returned is stored in no backend: its record
\* was removed (an id is stored in the step that issues it)
Removed(st, issued, n) ==
  /\ n <= issued
  /\ \A r \in AllRecords(st) : r.agentId # UUID(n)

\* C37: an id that a disposal has removed from the backends is not stored
\* again by any later step: a create that had found the record, or a
\* resume, suspended while the disposal ran, does not save the record when
\* it goes on.
C37_DisposedStaysGone ==
  [][\A n \in 1..MaxIds :
       Removed(Store, nextId, n) => Removed(Store', nextId', n)]_vars


\* caller c has made a resume that returned the record of id
ResumedBy(c, id) ==
  /\ calls[c].pc = "done"
  /\ "name" \in DOMAIN calls[c]
  /\ calls[c].res.ok
  /\ calls[c].res.agent.agentId = id

\* C38: when every caller has resumed the same record once and all these
\* calls have returned, the record is stored with a turnCount that many
\* above the 0 it was made with, however the calls overlapped, in the memory
\* storage and in a file storage (no other resume and no disposal is made).
C38_ResumesAllCounted ==
  \A n \in 1..MaxIds :
    (\A c \in Callers : ResumedBy(c, UUID(n)))
      => /\ \E r \in AllRecords(Store) : r.agentId = UUID(n)
         /\ \A r \in AllRecords(Store) :
              r.agentId = UUID(n) => r.turnCount = Cardinality(Callers)


\* C39: after every operation of the registry, the calls made one after
\* another, every scope directory of the session and of the workflow
\* storage holds at least one file: the removal of the last record of a
\* scope, by dispose as by a bulk disposal, removes the directory too.
C39_NoEmptyScopeDir ==
  \A ls \in {SESSION, WORKFLOW} :
    \A d \in ScopeDirs(Store, ls) : FilesIn(Store, d) # {}

====
